---- MODULE Spec2Model ----
(***************************************************************************)
(* RunnableManager of spin-cli (src/src/runnables/manager.ts, the version  *)
(* with dependsOn support, lines 349-857) as a state machine.              *)
(*                                                                         *)
(* One TLA+ step is one macrotask of the Node event loop: a public call    *)
(* (start, startAll), a child-process event (exit, error, data) or a timer *)
(* callback, together with every listener it runs synchronously and every  *)
(* promise continuation it makes runnable (microtasks run before the next  *)
(* macrotask).                                                             *)
(*                                                                         *)
(* Definitions come from the helpers shell()/docker(), which always set a  *)
(* command, so the "has no command" throw of start() is not reachable.     *)
(***************************************************************************)
EXTENDS Integers, Sequences, FiniteSets, TLC

\* ------------------------------------------------------------------------
\* Bounds of the model
\* ------------------------------------------------------------------------
Names == {"a", "b", "c"}

MaxDeps == 2

MaxChildren == 3

MaxStartAll == 1

MaxStart == 1

MaxOutput == 1

\* calls of stop and restart
MaxStop == 2

\* SpecBuffer: the largest capacity given to new OutputBuffer(), and the most
\* lines pushed between two clears
MaxCapacity == 3

MaxPushes == 5

\* SpecMain: keys of the UI that call the manager
MaxKeys == 1

\* SpecRunner, SpecApp: ScriptRunner objects made, run() calls, cancel()
\* calls and output lines
MaxRunners == 2

MaxRuns == 3

MaxCancel == 1

MaxRunnerOutput == 2

\* config.defaults.maxOutputLines of the modelled configs
maxOutputLines == 2

\* a Select Graphic Rendition escape sequence, as one character of the model
Sgr == "ESC[32m"

Newline == "\n"

\* the lines a child prints, as sequences of characters: a plain line, and
\* the text "ok" with a colour code inside it
Lines == {<<"x">>, <<"o", Sgr, "k">>}

Streams == {"stdout", "stderr"}

\* exit codes a child reports; Null is the code of a signalled exit
Null == -1

ExitCodes == {0, 1, Null}

Signals == {"none", "SIGTERM", "SIGINT", "SIGKILL"}

\* ------------------------------------------------------------------------
\* Values
\* ------------------------------------------------------------------------
Undefined == "undefined"

NoProc == 0

Range(s) == {s[i] : i \in 1..Len(s)}

SeqsNoDup(S, n) == {s \in UNION {[1..k -> S] : k \in 0..n} :
                      \A i, j \in 1..Len(s) : i # j => s[i] # s[j]}

VARIABLES
  config,                  \* SpinConfig: runnables (defined), dependsOn, readyWhen
  ids,                     \* keys of this.instances, in insertion order
  instances,               \* id -> RunnableInstance fields
  outputBuffers,           \* id -> {stdout, stderr, output} OutputBuffer
  children,                \* id -> the ChildProcess objects spawn() returned for it
  waiters,                 \* pending Promise.all of startWithDeps: [id, pending]
  dependencyWatcherSetup,  \* the flag of setupDependencyWatcher
  calls,                   \* calls of start, startAll, stop/restart and data lines so far
  lastOp,                  \* the macrotask just run and its inputs
  emitted,                 \* status-change events emitted by the last macrotask
  spawned,                 \* ids given to spawn() by the last macrotask, in order
  signalled,               \* signals the last macrotask sent: [id, child, signal]
  resolved,                \* stop() promises the last macrotask resolved, with the
                           \* instance as it was when resolve() ran
  thrown,                  \* the error the last call rejected with
  logBuffer,               \* SpecBuffer: one OutputBuffer on its own
  logHistory,              \* the capacity it was made with, the lines pushed since
                           \* the last clear()
  bufferOp,                \* the method last called on it, its argument and result
  runners,                 \* the ScriptRunner objects: status, process, output,
                           \* the children spawned, who listens
  scriptRunner,            \* App: the foreground runner (0: null)
  backgroundRunners,       \* App: backgroundRunnersRef, background id -> runner
  runnerCalls,             \* run(), cancel() calls and output lines so far
  runnerOp,                \* the macrotask just run on a runner
  runnerEvents,            \* signals sent and children spawned by it, in order
  outputLines,             \* App: the outputLines state as of the latest render
  pendingOutputLines,      \* App: setOutputLines updaters queued since that render
  backgroundScripts,       \* App: background id -> BackgroundScript entry
  stateFiles,              \* project root -> the state file of getStateFilePath
  mainProc,                \* main(): where it is, isCleaningUp, the StateWriter
                           \* listeners, pending stopAll() promises (and the
                           \* children cleanup() waits for), exit code
  livePids,                \* pids process.kill(pid, 0) finds running
  stateOp,                 \* the last readState call and what it returned
  writerLogs,              \* StateWriter.logs: id -> lines (no entry: <<>>)
  written,                 \* the snapshots the last macrotask wrote: their logs
                           \* section, and the combined buffers at that moment
  faults,                  \* what throws: writeState (the file cannot be
                           \* written), the handlers of a subscriber
  escaped,                 \* the last macrotask: an exception or a rejection
                           \* nobody caught, events later listeners did not get
  groups,                  \* config.groups: whether defined, name -> members
  resolveOp,               \* the last resolveTargets call and what it returned
  pipe                     \* one stdout/stderr pipe: bytes written, bytes to deliver, lines

vars == <<config, ids, instances, outputBuffers, children, waiters,
          dependencyWatcherSetup, calls, lastOp, emitted, spawned, signalled,
          resolved, thrown, logBuffer, logHistory, bufferOp,
          runners, scriptRunner, backgroundRunners, runnerCalls, runnerOp, runnerEvents,
          outputLines, pendingOutputLines, backgroundScripts,
          stateFiles, mainProc, livePids, stateOp, writerLogs, written,
          faults, escaped, groups, resolveOp, pipe>>

targetVars == <<groups, resolveOp>>

pipeVars == <<pipe>>

writerVars == <<writerLogs, written>>

faultVars == <<faults, escaped>>

mainVars == <<stateFiles, mainProc, livePids, stateOp>>

bufferVars == <<logBuffer, logHistory, bufferOp>>

uiVars == <<outputLines, pendingOutputLines, backgroundScripts>>

runnerVars == <<runners, scriptRunner, backgroundRunners, runnerCalls, runnerOp,
                runnerEvents, uiVars>>

IdSet == Range(ids)

dependsOn(id) == config.dependsOn[id]

\* ------------------------------------------------------------------------
\* OutputBuffer (helpers.ts)
\* ------------------------------------------------------------------------
Max(x, y) == IF x > y THEN x ELSE y

Min(x, y) == IF x < y THEN x ELSE y

NewOutputBuffer(capacity) ==
  LET cap == Max(0, capacity) IN
  [capacity |-> cap, buffer |-> [i \in 0..(cap - 1) |-> <<>>], start |-> 0, size |-> 0]

BufClear(b) == [b EXCEPT !.start = 0, !.size = 0]

\* push that overwrites the oldest line without moving start
BufPush_noAdvance(b, line) ==
  IF b.capacity = 0 THEN b
  ELSE IF b.size < b.capacity
       THEN [b EXCEPT !.buffer[(b.start + b.size) % b.capacity] = line,
                      !.size = b.size + 1]
       ELSE [b EXCEPT !.buffer[b.start] = line]

BufPush(b, line) ==
  IF b.capacity = 0 THEN b
  ELSE IF b.size < b.capacity
       THEN [b EXCEPT !.buffer[(b.start + b.size) % b.capacity] = line,
                      !.size = b.size + 1]
       ELSE [b EXCEPT !.buffer[b.start] = line,
                      !.start = (b.start + 1) % b.capacity]

BufToArray(b) ==
  IF b.size = 0 THEN <<>>
  ELSE IF b.size = b.capacity /\ b.start = 0
       THEN [i \in 1..b.capacity |-> b.buffer[i - 1]]
       ELSE [i \in 1..b.size |-> b.buffer[(b.start + (i - 1)) % b.capacity]]

\* tail that reads from the oldest line
BufTail_fromStart(b, count) ==
  IF b.size = 0 THEN <<>>
  ELSE LET len == Min(b.size, Max(0, count)) IN
       IF len = 0 THEN <<>>
       ELSE [i \in 1..len |-> b.buffer[(b.start + (i - 1)) % b.capacity]]

BufTail(b, count) ==
  IF b.size = 0 THEN <<>>
  ELSE LET len == Min(b.size, Max(0, count)) IN
       IF len = 0 THEN <<>>
       ELSE LET startIndex == (b.start + b.size - len + b.capacity) % b.capacity IN
            [i \in 1..len |-> b.buffer[(startIndex + (i - 1)) % b.capacity]]

createOutputBuffers ==
  [stdout |-> NewOutputBuffer(maxOutputLines),
   stderr |-> NewOutputBuffer(maxOutputLines),
   output |-> NewOutputBuffer(maxOutputLines)]

clearOutputBuffers(bs) ==
  [stdout |-> BufClear(bs.stdout),
   stderr |-> BufClear(bs.stderr),
   output |-> BufClear(bs.output)]

\* ------------------------------------------------------------------------
\* The manager's mutable state as one value, so that a handler and the
\* listeners it triggers compose as functions.
\* ------------------------------------------------------------------------
M == [inst |-> instances, buffers |-> outputBuffers, children |-> children,
      waiters |-> waiters, watcher |-> dependencyWatcherSetup,
      events |-> <<>>, spawns |-> <<>>, signals |-> <<>>, resolved |-> <<>>,
      main |-> mainProc, files |-> stateFiles,
      logs |-> writerLogs, writes |-> <<>>,
      abort |-> FALSE, uncaught |-> FALSE, missed |-> <<>>,
      pipe |-> pipe]

\* a promise nobody awaits rejects: the caller goes on, the rejection is
\* unhandled
rejected(m) ==
  IF m.abort THEN [m EXCEPT !.abort = FALSE, !.uncaught = TRUE] ELSE m

\* try { await ... } catch { }
caught(m) == [m EXCEPT !.abort = FALSE]

\* the project of the supervisor and its pid
ProjectRoot == "p"

ProjectRoots == {"p", "q"}

SupervisorPid == 1

Pids == {1, 2}

NoFile == [exists |-> FALSE, pid |-> 0, valid |-> FALSE]

\* writeState(state): the file holds JSON with process.pid
writeState(files, projectRoot) ==
  [files EXCEPT ![projectRoot] = [exists |-> TRUE, pid |-> SupervisorPid, valid |-> TRUE]]

\* removeState(projectRoot)
removeState(files, projectRoot) == [files EXCEPT ![projectRoot] = NoFile]

\* MAX_LOG_LINES of mcp/state-writer.ts
MAX_LOG_LINES == 100

\* writeCurrentState(): this.logs takes getOutputLines(id, 'all', MAX_LOG_LINES)
\* of each instance that has output, then the state is written
writeCurrentState(m) ==
  LET store == [id \in Names |->
                  IF id \in IdSet THEN BufTail(m.buffers[id].output, MAX_LOG_LINES)
                  ELSE <<>>]
      logs == [id \in Names |-> IF Len(store[id]) > 0 THEN store[id] ELSE m.logs[id]]
  IN [m EXCEPT !.logs = logs,
               !.files = writeState(@, ProjectRoot),
               !.writes = Append(@, [logs |-> logs, store |-> store])]

\* the statusHandler of StateWriter, the first listener of status-change; an
\* exception of writeState leaves through emit() and the listeners after it
\* are not called
statusHandler(m) ==
  IF m.main.listening
  THEN IF faults.write
       THEN LET event == m.events[Len(m.events)] IN
            [writeCurrentState(m) EXCEPT !.files = m.files, !.writes = m.writes,
                                         !.abort = TRUE,
                                         !.missed = Append(@, event)]
       ELSE writeCurrentState(m)
  ELSE m

\* a listener of the UI (registered after the StateWriter's, before startAll
\* registers the manager's own): its handler may throw
subscriber(m, event) ==
  IF ~m.abort /\ faults.subscriber
  THEN [m EXCEPT !.abort = TRUE, !.missed = Append(@, event)]
  ELSE m

\* the outputHandler of StateWriter
outputHandler(m, id, line) ==
  IF m.main.listening
  THEN LET serviceLines == Append(m.logs[id], line) IN
       [m EXCEPT !.logs[id] = IF Len(serviceLines) > MAX_LOG_LINES
                              THEN Tail(serviceLines) ELSE serviceLines]
  ELSE m

\* instance.status = status; instance.error = error; emit('status-change'),
\* for a status no registered listener reacts to (starting, waiting)
assignStatus(m, id, status, error) ==
  subscriber(statusHandler([m EXCEPT !.inst[id].status = status,
                                     !.inst[id].error = error,
                                     !.events = Append(@, <<id, status, error>>)]),
             <<id, status, error>>)

\* start(id): the guard, the epoch reset, spawn() and the grace timer
startAlways(m, id) ==
  LET m1 == assignStatus(m, id, "starting", Undefined)
      p  == Len(m1.children[id]) + 1
  IN IF m1.abort THEN m1 ELSE
     [m1 EXCEPT !.buffers[id] = clearOutputBuffers(@),
                !.inst[id].error = Undefined,
                !.children[id] = Append(@, [state |-> "live",
                                            graceTimer |-> ~config.readyWhen[id],
                                            term |-> FALSE,
                                            killTimers |-> 0,
                                            stops |-> <<>>]),
                !.inst[id].process = p,
                !.inst[id].startedAt = p,
                !.spawns = Append(@, id)]

\* start() without the "already running" guard
start_noGuard(m, id) == startAlways(m, id)

start(m, id) ==
  IF m.inst[id].status \in {"running", "starting"}
  THEN m
  ELSE startAlways(m, id)

\* a watcher that finds the waiter but never calls start()
watcherVisit_noStart(m, changedId, id) == m

\* the listener of setupDependencyWatcher, for one instance of its loop
watcherVisit(m, changedId, id) ==
  LET instance == m.inst[id] IN
  IF /\ instance.status = "waiting"
     /\ changedId \in Range(instance.waitingFor)
     /\ \A depId \in Range(instance.waitingFor) :
          depId \in IdSet /\ m.inst[depId].status = "running"
  THEN rejected(start([m EXCEPT !.inst[id].waitingFor = <<>>], id))
  ELSE m

RECURSIVE watcherLoop(_, _, _)
watcherLoop(m, changedId, k) ==
  IF k > Len(ids) THEN m
  ELSE watcherLoop(watcherVisit(m, changedId, ids[k]), changedId, k + 1)

dependencyWatcher(m, changedId, status) ==
  IF m.watcher /\ status = "running"
  THEN watcherLoop(m, changedId, 1)
  ELSE m

\* waitForRunning handlers that resolve on any terminal status
waitForRunningHandlers_resolveOnFailure(m, changedId, status) ==
  IF status \in {"running", "error", "stopped"}
  THEN [m EXCEPT !.waiters = {[w EXCEPT !.pending = @ \ {changedId}] : w \in m.waiters}]
  ELSE m

\* the status-change handlers of waitForRunning: a dependency's promise
\* resolves on running and rejects on error or stopped; a rejection rejects
\* the Promise.all of startWithDeps, whose catch block does nothing
waitForRunningHandlers(m, changedId, status) ==
  IF status = "running"
  THEN [m EXCEPT !.waiters = {[w EXCEPT !.pending = @ \ {changedId}] : w \in m.waiters}]
  ELSE IF status \in {"error", "stopped"}
       THEN [m EXCEPT !.waiters = {w \in m.waiters : changedId \notin w.pending}]
       ELSE m

\* setStatus with the listeners in registration order: the watcher is
\* registered by startAll before any waitForRunning handler
setStatus(m, id, status, error) ==
  LET m1 == assignStatus(m, id, status, error) IN
  IF m1.abort THEN m1
  ELSE waitForRunningHandlers(dependencyWatcher(m1, id, status), id, status)

\* the continuation of startWithDeps after its Promise.all resolved
RECURSIVE Drain(_)
Drain(m) ==
  LET ready == {w \in m.waiters : w.pending = {}} IN
  IF ready = {} THEN m
  ELSE LET w  == CHOOSE x \in ready : TRUE
           m1 == [m EXCEPT !.waiters = @ \ {w}, !.inst[w.id].waitingFor = <<>>]
       IN Drain(caught(start(m1, w.id)))

\* ------------------------------------------------------------------------
\* getTopologicalOrder
\* ------------------------------------------------------------------------
NoError == [kind |-> "none", id |-> "", dep |-> "", list |-> <<>>]

\* the (id, dep) pairs in the order the validation loops visit them
DepPairs ==
  LET RECURSIVE pairs(_, _)
      pairs(k, j) ==
        IF k > Len(ids) THEN <<>>
        ELSE IF j > Len(dependsOn(ids[k])) THEN pairs(k + 1, 1)
             ELSE <<[id |-> ids[k], dep |-> dependsOn(ids[k])[j]]>> \o pairs(k, j + 1)
  IN pairs(1, 1)

\* graph: dependency -> dependents, in the order they are pushed
graphOf(dep) ==
  LET mine == SelectSeq(DepPairs, LAMBDA pr : pr.dep = dep)
  IN [i \in 1..Len(mine) |-> mine[i].id]

RECURSIVE relax_noSet(_, _, _)
\* the inner loop without inDegree.set(dependent, newDegree)
relax_noSet(dependents, inDegree, queue) ==
  IF dependents = <<>> THEN [inDegree |-> inDegree, queue |-> queue]
  ELSE LET dependent == Head(dependents)
           newDegree == inDegree[dependent] - 1
       IN relax_noSet(Tail(dependents), inDegree,
                      IF newDegree = 0 THEN Append(queue, dependent) ELSE queue)

RECURSIVE relax(_, _, _)
\* the inner for loop over graph.get(current)
relax(dependents, inDegree, queue) ==
  IF dependents = <<>> THEN [inDegree |-> inDegree, queue |-> queue]
  ELSE LET dependent == Head(dependents)
           newDegree == inDegree[dependent] - 1
       IN relax(Tail(dependents),
                [inDegree EXCEPT ![dependent] = newDegree],
                IF newDegree = 0 THEN Append(queue, dependent) ELSE queue)

RECURSIVE kahn(_, _, _)
\* the while loop
kahn(queue, sorted, inDegree) ==
  IF queue = <<>> THEN [sorted |-> sorted, inDegree |-> inDegree]
  ELSE LET current == Head(queue)
           r == relax(graphOf(current), inDegree, Tail(queue))
       IN kahn(r.queue, Append(sorted, current), r.inDegree)

\* getTopologicalOrder without the validation loop
getTopologicalOrder_noValidation ==
  LET inDegree0 == [id \in IdSet |-> Len(dependsOn(id))]
      queue0    == SelectSeq(ids, LAMBDA id : inDegree0[id] = 0)
      r         == kahn(queue0, <<>>, inDegree0)
  IN IF Len(r.sorted) # Len(ids)
     THEN [order |-> <<>>,
           error |-> [kind |-> "Dependency cycle detected", id |-> "", dep |-> "",
                      list |-> SelectSeq(ids, LAMBDA id : r.inDegree[id] > 0)]]
     ELSE [order |-> r.sorted, error |-> NoError]

getTopologicalOrder ==
  LET missing == SelectSeq(DepPairs, LAMBDA pr : pr.dep \notin IdSet) IN
  IF missing # <<>>
  THEN [order |-> <<>>,
        error |-> [kind |-> "Unknown dependency", id |-> missing[1].id,
                   dep |-> missing[1].dep, list |-> ids]]
  ELSE LET inDegree0 == [id \in IdSet |-> Len(dependsOn(id))]
           queue0    == SelectSeq(ids, LAMBDA id : inDegree0[id] = 0)
           r         == kahn(queue0, <<>>, inDegree0)
       IN IF Len(r.sorted) # Len(ids)
          THEN [order |-> <<>>,
                error |-> [kind |-> "Dependency cycle detected", id |-> "", dep |-> "",
                           list |-> SelectSeq(ids, LAMBDA id : r.inDegree[id] > 0)]]
          ELSE [order |-> r.sorted, error |-> NoError]

\* ------------------------------------------------------------------------
\* startWithDeps / startAll
\* ------------------------------------------------------------------------
\* startWithDeps without instance.waitingFor = [...deps]
startWithDeps_noWaitingFor(m, id) ==
  LET deps == dependsOn(id) IN
  IF Len(deps) = 0 THEN start(m, id)
  ELSE LET m1 == assignStatus(m, id, "waiting", Undefined)
           pending == {dep \in Range(deps) : m1.inst[dep].status # "running"}
       IN [m1 EXCEPT !.waiters = @ \cup {[id |-> id, pending |-> pending]}]

startWithDeps(m, id) ==
  LET deps == dependsOn(id) IN
  IF Len(deps) = 0 THEN start(m, id)
  ELSE LET m1 == assignStatus([m EXCEPT !.inst[id].waitingFor = deps],
                              id, "waiting", Undefined)
           \* waitForRunning(dep) is already resolved when dep is running
           pending == {dep \in Range(deps) : m1.inst[dep].status # "running"}
       IN IF m1.abort THEN m1
          ELSE [m1 EXCEPT !.waiters = @ \cup {[id |-> id, pending |-> pending]}]

RECURSIVE startEach(_, _)
startEach(m, order) ==
  IF order = <<>> THEN m
  ELSE startEach(rejected(startWithDeps(m, Head(order))), Tail(order))

\* ------------------------------------------------------------------------
\* addOutput
\* ------------------------------------------------------------------------
getOutputLines(m, id) == BufToArray(m.buffers[id].output)

\* str.replace(/\x1b\[[0-9;]*m/g, '')
stripAnsi(str) == SelectSeq(str, LAMBDA ch : ch # Sgr)

\* lines.join('\n')
RECURSIVE join(_)
join(lines) ==
  IF lines = <<>> THEN <<>>
  ELSE IF Len(lines) = 1 THEN lines[1]
       ELSE lines[1] \o <<"\n">> \o join(Tail(lines))

\* String.prototype.includes
includes(str, pat) ==
  \E i \in 1..(Len(str) - Len(pat) + 1) : SubSeq(str, i, i + Len(pat) - 1) = pat

\* the readyWhen predicate of the modelled configs: output.includes("ok")
readyWhen(allOutput) == includes(allOutput, <<"o", "k">>)

addOutput(m, id, line, stream) ==
  LET m1 == [m EXCEPT !.buffers[id][stream] = BufPush(@, line)]
      m2 == subscriber(outputHandler([m1 EXCEPT !.buffers[id].output = BufPush(@, line)],
                                     id, line),
                       <<id, "output", Undefined>>)
  IN IF m2.abort THEN m2 ELSE
     IF /\ m2.inst[id].status = "starting"
        /\ config.readyWhen[id]
        /\ readyWhen(stripAnsi(join(getOutputLines(m2, id))))
     THEN setStatus(m2, id, "running", Undefined)
     ELSE m2

\* data.toString().split('\n'): the pieces between the newlines of a chunk,
\* the empty ones included
RECURSIVE split(_, _)
split(chunk, piece) ==
  IF chunk = <<>> THEN <<piece>>
  ELSE IF Head(chunk) = Newline
       THEN <<piece>> \o split(Tail(chunk), <<>>)
       ELSE split(Tail(chunk), Append(piece, Head(chunk)))

\* .filter(Boolean) on strings: drops the empty ones
filterBoolean(pieces) == SelectSeq(pieces, LAMBDA piece : piece # <<>>)

\* for (const line of lines) this.addOutput(id, line, stream)
RECURSIVE addOutputs(_, _, _, _)
addOutputs(m, id, lines, stream) ==
  IF lines = <<>> \/ m.abort THEN m
  ELSE addOutputs(addOutput([m EXCEPT !.pipe.lines = Append(@, Head(lines))],
                            id, Head(lines), stream),
                  id, Tail(lines), stream)

\* proc.stdout.on('data', (data) => ...), and the same for stderr
onData(m, id, data, stream) ==
  addOutputs(m, id, filterBoolean(split(data, <<>>)), stream)

\* ------------------------------------------------------------------------
\* Initial states: new RunnableManager(config); manager.init(targets)
\* ------------------------------------------------------------------------
init(targets) == SelectSeq(targets, LAMBDA id : id \in config.runnables)

NewInstance == [status |-> "stopped", process |-> NoProc, error |-> Undefined,
                waitingFor |-> <<>>, startedAt |-> 0]

\* no OutputBuffer under test
BufferIdle ==
  /\ logBuffer = NewOutputBuffer(0)
  /\ logHistory = [capacity |-> 0, pushed |-> <<>>]
  /\ bufferOp = [op |-> "none", n |-> 0, result |-> <<>>]

\* no ScriptRunner made
\* no supervisor process: no StateWriter, no state file
MainIdle ==
  /\ stateFiles = [r \in ProjectRoots |-> NoFile]
  /\ mainProc = [pc |-> "none", exitCode |-> Null, listening |-> FALSE,
                 isCleaningUp |-> FALSE, ui |-> FALSE,
                 quit |-> Null, cleanup |-> Null, stopped |-> {}]
  /\ livePids = {}
  /\ stateOp = [op |-> "none", projectRoot |-> "", before |-> NoFile, result |-> NoFile]

\* names a group of the modelled configs may have: one that is no runnable
\* id and one that is also a runnable id (loadConfig validates neither)
GroupNames == {"g", "a"}

\* a property every plain object inherits from Object.prototype: a lookup
\* config.runnables[name] or config.groups[name] under such a name finds the
\* inherited value, which is truthy
ObjectPrototype == {"constructor"}

NoGroup == [present |-> FALSE, members |-> <<>>]

NoResolve == [op |-> "none", names |-> <<>>, targets |-> <<>>, errors |-> <<>>,
              thrown |-> FALSE]

\* writeState succeeds and no handler of a subscriber throws
NoFaults == [write |-> FALSE, subscriber |-> FALSE]

NoEscape == [uncaught |-> FALSE, missed |-> <<>>]

FaultIdle ==
  /\ faults = NoFaults
  /\ escaped = NoEscape

\* a StateWriter that has seen no output and written nothing yet
WriterIdle ==
  /\ writerLogs = [id \in Names |-> <<>>]
  /\ written = <<>>

SeqsUpTo(S, n) == UNION {[1..k -> S] : k \in 0..n}

\* no child output pipe under test
NoPipe == [bytes |-> <<>>, rest |-> <<>>, lines |-> <<>>]

PipeIdle == pipe = NoPipe

\* resolveTargets not under test: a config without groups
TargetIdle ==
  /\ groups = [defined |-> FALSE, of |-> [g \in GroupNames |-> NoGroup]]
  /\ resolveOp = NoResolve

RunnerIdle ==
  /\ runners = <<>>
  /\ scriptRunner = 0
  /\ backgroundRunners = <<>>
  /\ runnerCalls = [run |-> 0, cancel |-> 0, data |-> 0]
  /\ runnerOp = [op |-> "none", runner |-> 0, child |-> 0]
  /\ runnerEvents = <<>>
  /\ outputLines = <<>>
  /\ pendingOutputLines = <<>>
  /\ backgroundScripts = <<>>

InitManager(targets) ==
  /\ ids = init(targets)
  /\ instances = [id \in Range(init(targets)) |-> NewInstance]
  /\ outputBuffers = [id \in Range(init(targets)) |-> createOutputBuffers]
  /\ children = [id \in Range(init(targets)) |-> <<>>]
  /\ waiters = {}
  /\ dependencyWatcherSetup = FALSE
  /\ calls = [start |-> 0, startAll |-> 0, stop |-> 0, data |-> 0]
  /\ lastOp = [op |-> "init", id |-> "", child |-> 0]
  /\ emitted = <<>>
  /\ spawned = <<>>
  /\ signalled = <<>>
  /\ resolved = <<>>
  /\ thrown = NoError

\* Spec: every runnable of the config is a target (spin without arguments),
\* each depends only on runnables defined before it, none has a readyWhen and
\* the children print nothing
Earlier(id) == {n \in Names : \E i, j \in 1..3 :
                  i < j /\ <<"a", "b", "c">>[i] = n /\ <<"a", "b", "c">>[j] = id}

Init ==
  /\ config \in [runnables : {Names},
                 dependsOn : {d \in [Names -> SeqsNoDup(Names, MaxDeps)] :
                                \A id \in Names : Range(d[id]) \subseteq Earlier(id)},
                 readyWhen : {[n \in Names |-> FALSE]}]
  /\ InitManager(<<"a", "b", "c">>)
  /\ BufferIdle
  /\ RunnerIdle
  /\ MainIdle
  /\ TargetIdle
  /\ PipeIdle
  /\ WriterIdle
  /\ FaultIdle

\* SpecOutput: two runnables whose children print, with or without readyWhen
InitOutput ==
  /\ config \in [runnables : {{"a", "b"}},
                 dependsOn : {d \in [Names -> SeqsNoDup(Names, MaxDeps)] :
                                /\ d["a"] = <<>> /\ d["c"] = <<>>
                                /\ Range(d["b"]) \subseteq {"a"}},
                 readyWhen : {r \in [Names -> BOOLEAN] : ~r["c"]}]
  /\ InitManager(<<"a", "b">>)
  /\ BufferIdle
  /\ RunnerIdle
  /\ MainIdle
  /\ TargetIdle
  /\ PipeIdle
  /\ WriterIdle
  /\ FaultIdle

\* SpecStop: one runnable without readyWhen, started, stopped and restarted;
\* the other names are unknown to the manager
InitStop ==
  /\ config \in [runnables : {{"a"}},
                 dependsOn : {[n \in Names |-> <<>>]},
                 readyWhen : {[n \in Names |-> FALSE]}]
  /\ InitManager(<<"a">>)
  /\ BufferIdle
  /\ RunnerIdle
  /\ MainIdle
  /\ TargetIdle
  /\ PipeIdle
  /\ WriterIdle
  /\ FaultIdle

\* SpecTopo: any dependsOn lists, any non-empty list of targets
InitTopo ==
  /\ config \in [runnables : SUBSET Names \ {{}},
                 dependsOn : [Names -> SeqsNoDup(Names, MaxDeps)],
                 readyWhen : {[n \in Names |-> FALSE]}]
  /\ \A n \in Names \ config.runnables : config.dependsOn[n] = <<>>
  /\ \E targets \in SeqsNoDup(config.runnables, Cardinality(Names)) :
       /\ targets # <<>>
       /\ InitManager(targets)
  /\ BufferIdle
  /\ RunnerIdle
  /\ MainIdle
  /\ TargetIdle
  /\ PipeIdle
  /\ WriterIdle
  /\ FaultIdle

\* ------------------------------------------------------------------------
\* Actions
\* ------------------------------------------------------------------------
RECURSIVE SumLen(_, _)
SumLen(f, S) ==
  IF S = {} THEN 0
  ELSE LET x == CHOOSE y \in S : TRUE IN Len(f[x]) + SumLen(f, S \ {x})

SpawnTotal(ch) == SumLen(ch, DOMAIN ch)

Commit(m, op) ==
  /\ SpawnTotal(m.children) <= MaxChildren
  /\ instances' = m.inst
  /\ outputBuffers' = m.buffers
  /\ children' = m.children
  /\ waiters' = m.waiters
  /\ dependencyWatcherSetup' = m.watcher
  /\ emitted' = m.events
  /\ spawned' = m.spawns
  /\ signalled' = m.signals
  /\ resolved' = m.resolved
  /\ lastOp' = op
  /\ mainProc' = m.main
  /\ stateFiles' = m.files
  /\ writerLogs' = m.logs
  /\ written' = m.writes
  /\ escaped' = [uncaught |-> m.abort \/ m.uncaught, missed |-> m.missed]
  /\ UNCHANGED faults
  /\ pipe' = m.pipe
  /\ UNCHANGED <<config, ids, livePids, stateOp>>
  /\ UNCHANGED <<bufferVars, runnerVars, targetVars>>

\* manager.start(id), as the UI calls it for the active service
Start(id) ==
  /\ id \in IdSet
  /\ calls.start < MaxStart
  /\ calls' = [calls EXCEPT !.start = @ + 1]
  /\ Commit(Drain(rejected(start(M, id))), [op |-> "start", id |-> id, child |-> 0])
  /\ thrown' = NoError

\* manager.startAll()
StartAll ==
  /\ calls.startAll < MaxStartAll
  /\ calls' = [calls EXCEPT !.startAll = @ + 1]
  /\ LET t == getTopologicalOrder IN
     IF t.error # NoError
     THEN /\ Commit(M, [op |-> "startAll", id |-> "", child |-> 0])
          /\ thrown' = t.error
     ELSE /\ Commit(Drain(startEach([M EXCEPT !.watcher = TRUE], t.order)),
                    [op |-> "startAll", id |-> "", child |-> 0])
          /\ thrown' = NoError

\* the instance as a stop() promise finds it when resolve() runs
Snapshot(m, id, p) ==
  [id |-> id, child |-> p,
   status |-> IF id \in IdSet THEN m.inst[id].status ELSE Undefined,
   process |-> IF id \in IdSet THEN m.inst[id].process ELSE NoProc,
   exited |-> IF p = 0 THEN TRUE ELSE m.children[id][p].state = "exited"]

\* the code after "await this.stop(id)", defined below
RECURSIVE afterStop(_, _, _)

RECURSIVE afterStops(_, _, _)
afterStops(m, id, kinds) ==
  IF kinds = <<>> THEN m
  ELSE afterStops(afterStop(m, id, Head(kinds)), id, Tail(kinds))

\* SIGTERM to the process group of child p of id, the once('exit') listener
\* and the 5 s timer
stopProcess(m, id, p, kind) ==
  [m EXCEPT !.children[id][p].stops = Append(@, kind),
            !.children[id][p].term = TRUE,
            !.children[id][p].killTimers = @ + 1,
            !.signals = Append(@, [id |-> id, child |-> p, signal |-> "SIGTERM"])]

\* stop(id) that takes the child it spawned last for the process, whatever
\* instance.process holds
stop_noGuard(m, id, kind) ==
  IF id \notin IdSet \/ m.children[id] = <<>>
  THEN afterStop([m EXCEPT !.resolved = Append(@, Snapshot(m, id, 0))], id, kind)
  ELSE stopProcess(m, id, Len(m.children[id]), kind)

\* stop(id), and what follows it in the caller (kind): without an instance or a
\* process handle the promise is resolved at once
stop(m, id, kind) ==
  LET p == IF id \in IdSet THEN m.inst[id].process ELSE NoProc IN
  IF p = NoProc
  THEN afterStop([m EXCEPT !.resolved = Append(@, Snapshot(m, id, 0))], id, kind)
  ELSE stopProcess(m, id, p, kind)

\* stopAll(): stop(id) for every instance, in the order of the keys; kind is
\* what awaits the Promise.all
RECURSIVE stopEach(_, _, _)
stopEach(m, k, kind) ==
  IF k > Len(ids) THEN m
  ELSE stopEach(stop(m, ids[k], kind), k + 1, kind)

stopAll(m, kind) == stopEach(m, 1, kind)

\* the children the stop() calls of a stopAll() wait for
Awaited(m) == {<<id, m.inst[id].process>> : id \in {i \in IdSet : m.inst[i].process # NoProc}}

\* cleanup() of main without the isCleaningUp guard
cleanup_noGuard(m) ==
  stopAll([m EXCEPT !.main.isCleaningUp = TRUE,
                    !.main.listening = FALSE,
                    !.files = removeState(@, ProjectRoot),
                    !.main.cleanup = Len(ids),
                    !.main.stopped = Awaited(m)], "cleanup")

\* cleanup() of main up to "await manager.stopAll()": the guard,
\* stateWriter.stop() and the stop() calls
cleanup(m) ==
  IF m.main.isCleaningUp THEN m
  ELSE stopAll([m EXCEPT !.main.isCleaningUp = TRUE,
                         !.main.listening = FALSE,
                         !.files = removeState(@, ProjectRoot),
                         !.main.cleanup = Len(ids),
                         !.main.stopped = Awaited(m)], "cleanup")

\* cleanup() after "await manager.stopAll()", run when the last of its stop()
\* promises resolved: unmount and process.exit(0)
cleanupStopped(m) ==
  IF m.main.cleanup > 1
  THEN [m EXCEPT !.main.cleanup = @ - 1]
  ELSE [m EXCEPT !.main.cleanup = 0,
                 !.main.ui = FALSE,
                 !.main.pc = "exited",
                 !.main.exitCode = 0]

\* the then() of the quit key of App, run when the last stop() promise of its
\* stopAll() resolved: exit() ends ink.waitUntilExit() and main goes on to
\* "await cleanup()"
quitStopped(m) ==
  IF m.main.quit > 1
  THEN [m EXCEPT !.main.quit = @ - 1]
  ELSE LET m1 == [m EXCEPT !.main.quit = 0, !.main.ui = FALSE] IN
       IF m1.main.pc = "waitUntilExit"
       THEN cleanup([m1 EXCEPT !.main.pc = "cleanup"])
       ELSE m1

\* the code after "await this.stop(id)": nothing for stop(), start(id) for
\* restart(), the count of Promise.all for stopAll(); none of it runs once
\* process.exit() was called
afterStop(m, id, kind) ==
  IF m.main.pc = "exited" THEN m
  ELSE IF kind = "restart" /\ id \in IdSet THEN rejected(start(m, id))
  ELSE IF kind = "cleanup" THEN cleanupStopped(m)
  ELSE IF kind = "quit" THEN quitStopped(m)
  ELSE m

\* the once('exit') listeners of stop(): resolve(), then the awaiting callers
\* continue in the order they called
stopResolved(m, id, p) ==
  LET kinds == m.children[id][p].stops
      m1 == [m EXCEPT !.children[id][p].stops = <<>>,
                      !.resolved = @ \o [i \in 1..Len(kinds) |-> Snapshot(m, id, p)]]
  IN afterStops(m1, id, kinds)

\* the callback of the 5 s timer of stop(): SIGKILL to the process group of the
\* stopped child if the instance holds a process
onKillTimer(m, id, p) ==
  LET m1 == [m EXCEPT !.children[id][p].killTimers = @ - 1]
  IN IF m1.inst[id].process # NoProc
     THEN [m1 EXCEPT !.signals = Append(@, [id |-> id, child |-> p, signal |-> "SIGKILL"])]
     ELSE m1

\* the exit classification without the SIGINT case
exitStatus_noSigint(code, signal) ==
  IF code = 0 \/ signal = "SIGTERM"
  THEN [status |-> "stopped", error |-> Undefined]
  ELSE [status |-> "error",
        error |-> "Exited with code " \o (IF code = Null THEN "null" ELSE ToString(code))]

\* the condition of the exit handler
exitStatus(code, signal) ==
  IF code = 0 \/ signal = "SIGTERM" \/ signal = "SIGINT"
  THEN [status |-> "stopped", error |-> Undefined]
  ELSE [status |-> "error",
        error |-> "Exited with code " \o (IF code = Null THEN "null" ELSE ToString(code))]

\* an exit handler that leaves instance.process as it is
onExit_keepHandle(m, id, p, code, signal) ==
  LET m0 == [m EXCEPT !.children[id][p].state = "exited"]
      s  == exitStatus(code, signal)
      m2 == setStatus(m0, id, s.status, s.error)
      m3 == [m2 EXCEPT !.children[id][p].graceTimer = FALSE]
  IN stopResolved(m3, id, p)

\* proc.on('exit', (code, signal) => ...), then the once('exit') that clears
\* the grace timer
onExit(m, id, p, code, signal) ==
  LET m0 == [m EXCEPT !.children[id][p].state = "exited"]
      m1 == [m0 EXCEPT !.inst[id].process = NoProc]
      s  == exitStatus(code, signal)
      m2 == setStatus(m1, id, s.status, s.error)
      m3 == [m2 EXCEPT !.children[id][p].graceTimer = FALSE]
  IN IF m2.abort THEN m2 ELSE stopResolved(m3, id, p)

\* a child exits with a code, or is terminated by a signal (code null)
ExitPairs == {<<c, s>> \in ExitCodes \X Signals : (c = Null) <=> (s # "none")}

ChildExit(id, p) ==
  /\ id \in IdSet
  /\ p \in 1..Len(children[id])
  /\ children[id][p].state = "live"
  /\ \E cs \in ExitPairs :
       Commit(Drain(onExit(M, id, p, cs[1], cs[2])),
              [op |-> "exit", id |-> id, child |-> p,
               code |-> cs[1], signal |-> cs[2]])
  /\ thrown' = NoError
  /\ UNCHANGED calls

\* proc.on('error', (err) => ...): the spawn failed
onError(m, id, p) ==
  LET m1 == [m EXCEPT !.inst[id].process = NoProc]
      m2 == setStatus(m1, id, "error", "spawn ENOENT")
  IN [m2 EXCEPT !.children[id][p].state = "failed"]

ChildError(id, p) ==
  /\ id \in IdSet
  /\ p \in 1..Len(children[id])
  /\ children[id][p].state = "live"
  /\ Commit(Drain(onError(M, id, p)), [op |-> "error", id |-> id, child |-> p])
  /\ thrown' = NoError
  /\ UNCHANGED calls

\* a grace timer that sets running whatever the status is
onGraceTimer_anyStatus(m, id, p) ==
  setStatus([m EXCEPT !.children[id][p].graceTimer = FALSE], id, "running", Undefined)

\* the callback of the 500 ms grace timer armed by start()
onGraceTimer(m, id, p) ==
  LET m1 == [m EXCEPT !.children[id][p].graceTimer = FALSE]
  IN IF m1.inst[id].status = "starting"
     THEN setStatus(m1, id, "running", Undefined)
     ELSE m1

GraceTimer(id, p) ==
  /\ id \in IdSet
  /\ p \in 1..Len(children[id])
  /\ children[id][p].graceTimer
  /\ Commit(Drain(onGraceTimer(M, id, p)), [op |-> "grace", id |-> id, child |-> p])
  /\ thrown' = NoError
  /\ UNCHANGED calls

\* manager.stop(id)
Stop(id) ==
  /\ calls.stop < MaxStop
  /\ calls' = [calls EXCEPT !.stop = @ + 1]
  /\ Commit(Drain(stop(M, id, "stop")), [op |-> "stop", id |-> id, child |-> 0])
  /\ thrown' = NoError

\* manager.restart(id)
Restart(id) ==
  /\ id \in IdSet
  /\ calls.stop < MaxStop
  /\ calls' = [calls EXCEPT !.stop = @ + 1]
  /\ Commit(Drain(stop(M, id, "restart")), [op |-> "restart", id |-> id, child |-> 0])
  /\ thrown' = NoError

KillTimer(id, p) ==
  /\ id \in IdSet
  /\ p \in 1..Len(children[id])
  /\ children[id][p].killTimers > 0
  /\ Commit(Drain(onKillTimer(M, id, p)), [op |-> "kill", id |-> id, child |-> p])
  /\ thrown' = NoError
  /\ UNCHANGED calls

\* output still in the pipes of a child whose 'exit' has been emitted (the
\* streams close after 'exit'; descendants may hold them open)
LateData(id, p, line, stream) ==
  /\ id \in IdSet
  /\ p \in 1..Len(children[id])
  /\ children[id][p].state = "exited"
  /\ calls.data < MaxOutput
  /\ calls' = [calls EXCEPT !.data = @ + 1]
  /\ Commit(Drain(addOutput(M, id, line, stream)),
            [op |-> "data", id |-> id, child |-> p, line |-> line, stream |-> stream])
  /\ thrown' = NoError

\* proc.stdout / proc.stderr 'data' with one non-empty line
Data(id, p, line, stream) ==
  /\ id \in IdSet
  /\ p \in 1..Len(children[id])
  /\ children[id][p].state = "live"
  /\ calls.data < MaxOutput
  /\ calls' = [calls EXCEPT !.data = @ + 1]
  /\ Commit(Drain(addOutput(M, id, line, stream)),
            [op |-> "data", id |-> id, child |-> p, line |-> line, stream |-> stream])
  /\ thrown' = NoError

Next ==
  \/ \E id \in Names : Start(id)
  \/ StartAll
  \/ \E id \in Names, p \in 1..MaxChildren : ChildExit(id, p)
  \/ \E id \in Names, p \in 1..MaxChildren : ChildError(id, p)
  \/ \E id \in Names, p \in 1..MaxChildren : GraceTimer(id, p)

Spec == Init /\ [][Next]_vars

NextOutput ==
  \/ Next
  \/ \E id \in Names, p \in 1..MaxChildren, line \in Lines, stream \in Streams :
       Data(id, p, line, stream)

SpecOutput == InitOutput /\ [][NextOutput]_vars

NextStop ==
  \/ \E id \in Names : Start(id)
  \/ \E id \in Names : Stop(id)
  \/ \E id \in Names : Restart(id)
  \/ \E id \in Names, p \in 1..MaxChildren : ChildExit(id, p)
  \/ \E id \in Names, p \in 1..MaxChildren : ChildError(id, p)
  \/ \E id \in Names, p \in 1..MaxChildren : GraceTimer(id, p)
  \/ \E id \in Names, p \in 1..MaxChildren : KillTimer(id, p)
  \/ \E id \in Names, p \in 1..MaxChildren, line \in Lines, stream \in Streams :
       Data(id, p, line, stream)
  \/ \E id \in Names, p \in 1..MaxChildren, line \in Lines, stream \in Streams :
       LateData(id, p, line, stream)

SpecStop == InitStop /\ [][NextStop]_vars

NextTopo == StartAll

SpecTopo == InitTopo /\ [][NextTopo]_vars

\* ------------------------------------------------------------------------
\* SpecBuffer: an OutputBuffer of any capacity, pushed to, cleared and read
\* ------------------------------------------------------------------------
InitBuffer ==
  /\ config = [runnables |-> {}, dependsOn |-> [n \in Names |-> <<>>],
               readyWhen |-> [n \in Names |-> FALSE]]
  /\ InitManager(<<>>)
  /\ \E capacity \in (-1)..MaxCapacity :
       /\ logBuffer = NewOutputBuffer(capacity)
       /\ logHistory = [capacity |-> capacity, pushed |-> <<>>]
  /\ bufferOp = [op |-> "new", n |-> 0, result |-> <<>>]
  /\ RunnerIdle
  /\ MainIdle
  /\ TargetIdle
  /\ PipeIdle
  /\ WriterIdle
  /\ FaultIdle

managerVars == <<config, ids, instances, outputBuffers, children, waiters,
                 dependencyWatcherSetup, calls, lastOp, emitted, spawned, signalled,
                 resolved, thrown, mainVars, writerVars, faultVars>>

BufferPush(line) ==
  /\ Len(logHistory.pushed) < MaxPushes
  /\ logBuffer' = BufPush(logBuffer, line)
  /\ logHistory' = [logHistory EXCEPT !.pushed = Append(@, line)]
  /\ bufferOp' = [op |-> "push", n |-> 0, result |-> <<>>]
  /\ UNCHANGED <<managerVars, runnerVars, targetVars, pipeVars>>

BufferClear ==
  /\ logBuffer' = BufClear(logBuffer)
  /\ logHistory' = [logHistory EXCEPT !.pushed = <<>>]
  /\ bufferOp' = [op |-> "clear", n |-> 0, result |-> <<>>]
  /\ UNCHANGED <<managerVars, runnerVars, targetVars, pipeVars>>

BufferTail(count) ==
  /\ bufferOp' = [op |-> "tail", n |-> count, result |-> BufTail(logBuffer, count)]
  /\ UNCHANGED <<logBuffer, logHistory>>
  /\ UNCHANGED <<managerVars, runnerVars, targetVars, pipeVars>>

BufferToArray ==
  /\ bufferOp' = [op |-> "toArray", n |-> 0, result |-> BufToArray(logBuffer)]
  /\ UNCHANGED <<logBuffer, logHistory>>
  /\ UNCHANGED <<managerVars, runnerVars, targetVars, pipeVars>>

NextBuffer ==
  \/ \E line \in Lines : BufferPush(line)
  \/ BufferClear
  \/ \E count \in (-1)..(MaxCapacity + 2) : BufferTail(count)
  \/ BufferToArray

SpecBuffer == InitBuffer /\ [][NextBuffer]_vars

\* ------------------------------------------------------------------------
\* The Log Store under any defaults.maxOutputLines: one runnable whose child
\* prints several lines
\* ------------------------------------------------------------------------
MaxLogLines == 3

\* new RunnableManager(config) with defaults.maxOutputLines = capacity
InitLog ==
  /\ config \in [runnables : {{"a"}},
                 dependsOn : {[n \in Names |-> <<>>]},
                 readyWhen : {r \in [Names -> BOOLEAN] : ~r["b"] /\ ~r["c"]}]
  /\ ids = init(<<"a">>)
  /\ instances = [id \in {"a"} |-> NewInstance]
  /\ \E capacity \in 0..MaxCapacity :
       outputBuffers = [id \in {"a"} |-> [stdout |-> NewOutputBuffer(capacity),
                                          stderr |-> NewOutputBuffer(capacity),
                                          output |-> NewOutputBuffer(capacity)]]
  /\ children = [id \in {"a"} |-> <<>>]
  /\ waiters = {}
  /\ dependencyWatcherSetup = FALSE
  /\ calls = [start |-> 0, startAll |-> 0, stop |-> 0, data |-> 0]
  /\ lastOp = [op |-> "init", id |-> "", child |-> 0]
  /\ emitted = <<>>
  /\ spawned = <<>>
  /\ signalled = <<>>
  /\ resolved = <<>>
  /\ thrown = NoError
  /\ BufferIdle
  /\ RunnerIdle
  /\ MainIdle
  /\ TargetIdle
  /\ PipeIdle
  /\ WriterIdle
  /\ FaultIdle

\* proc.stdout / proc.stderr 'data' with one non-empty line, up to MaxLogLines
\* of them
LogData(id, p, line, stream) ==
  /\ id \in IdSet
  /\ p \in 1..Len(children[id])
  /\ children[id][p].state = "live"
  /\ calls.data < MaxLogLines
  /\ calls' = [calls EXCEPT !.data = @ + 1]
  /\ Commit(Drain(addOutput(M, id, line, stream)),
            [op |-> "data", id |-> id, child |-> p, line |-> line, stream |-> stream])
  /\ thrown' = NoError

NextLog ==
  \/ \E id \in Names : Start(id)
  \/ \E id \in Names, p \in 1..MaxChildren : ChildExit(id, p)
  \/ \E id \in Names, p \in 1..MaxChildren : GraceTimer(id, p)
  \/ \E id \in Names, p \in 1..MaxChildren, line \in Lines, stream \in Streams :
       LogData(id, p, line, stream)

SpecLog == InitLog /\ [][NextLog]_vars

\* ------------------------------------------------------------------------
\* The output pipe of one child: the bytes the child writes reach the 'data'
\* handler in chunks of any length
\* ------------------------------------------------------------------------
MaxBytes == 4

Chars == {"x", "y", Newline}

\* one runnable with buffers that hold every line of the run; the child will
\* write pipe.bytes to its stdout
InitChunks ==
  /\ config = [runnables |-> {"a"}, dependsOn |-> [n \in Names |-> <<>>],
               readyWhen |-> [n \in Names |-> FALSE]]
  /\ ids = init(<<"a">>)
  /\ instances = [id \in {"a"} |-> NewInstance]
  /\ outputBuffers = [id \in {"a"} |-> [stdout |-> NewOutputBuffer(MaxBytes),
                                        stderr |-> NewOutputBuffer(MaxBytes),
                                        output |-> NewOutputBuffer(MaxBytes)]]
  /\ children = [id \in {"a"} |-> <<>>]
  /\ waiters = {}
  /\ dependencyWatcherSetup = FALSE
  /\ calls = [start |-> 0, startAll |-> 0, stop |-> 0, data |-> 0]
  /\ lastOp = [op |-> "init", id |-> "", child |-> 0]
  /\ emitted = <<>>
  /\ spawned = <<>>
  /\ signalled = <<>>
  /\ resolved = <<>>
  /\ thrown = NoError
  /\ BufferIdle
  /\ RunnerIdle
  /\ MainIdle
  /\ TargetIdle
  /\ \E bytes \in SeqsUpTo(Chars, MaxBytes) :
       pipe = [bytes |-> bytes, rest |-> bytes, lines |-> <<>>]
  /\ WriterIdle
  /\ FaultIdle

\* proc.stdout 'data' with the next n bytes the child wrote
ChunkData(id, p, n) ==
  /\ id \in IdSet
  /\ p \in 1..Len(children[id])
  /\ children[id][p].state = "live"
  /\ n \in 1..Len(pipe.rest)
  /\ LET data == SubSeq(pipe.rest, 1, n)
         m    == [M EXCEPT !.pipe.rest = SubSeq(@, n + 1, Len(@))]
     IN Commit(Drain(onData(m, id, data, "stdout")),
               [op |-> "data", id |-> id, child |-> p, line |-> data, stream |-> "stdout"])
  /\ thrown' = NoError
  /\ UNCHANGED calls

NextChunks ==
  \/ \E id \in Names : Start(id)
  \/ \E id \in Names, p \in 1..MaxChildren, n \in 1..MaxBytes : ChunkData(id, p, n)
  \/ \E id \in Names, p \in 1..MaxChildren : GraceTimer(id, p)

SpecChunks == InitChunks /\ [][NextChunks]_vars

\* ------------------------------------------------------------------------
\* resolveTargets (src/src/config/loader.ts)
\* ------------------------------------------------------------------------
\* names of the command line and members of groups
MaxNames == 2

MaxMembers == 2

TargetNames == Names \cup GroupNames \cup ObjectPrototype

\* `config.groups?.[name]` is truthy: an array, the empty one too, or an
\* inherited property
hasGroup(cfg, grp, name) ==
  /\ grp.defined
  /\ \/ name \in GroupNames /\ grp.of[name].present
     \/ name \in ObjectPrototype

\* `config.runnables[name]` is truthy
hasRunnable(cfg, grp, name) ==
  name \in cfg.runnables \/ name \in ObjectPrototype

\* targets.add(id) of a Set, which keeps insertion order
addTarget(targets, id) ==
  IF id \in Range(targets) THEN targets ELSE Append(targets, id)

RECURSIVE addMembers(_, _, _, _, _)
\* for (const serviceId of config.groups[name])
addMembers(cfg, grp, acc, name, members) ==
  IF members = <<>> THEN acc
  ELSE LET serviceId == Head(members)
           acc1 == IF hasRunnable(cfg, grp, serviceId)
                   THEN [acc EXCEPT !.targets = addTarget(@, serviceId)]
                   ELSE [acc EXCEPT !.errors =
                           Append(@, [kind |-> "unknownService", name |-> name,
                                      serviceId |-> serviceId])]
       IN addMembers(cfg, grp, acc1, name, Tail(members))

RECURSIVE resolveNames(_, _, _, _)
\* for (const name of names): an inherited property found as a group is not
\* iterable and the for..of over it throws a TypeError
resolveNames(cfg, grp, acc, names) ==
  IF names = <<>> \/ acc.thrown THEN acc
  ELSE LET name == Head(names)
           acc1 ==
             IF hasGroup(cfg, grp, name)
             THEN IF name \in GroupNames /\ grp.of[name].present
                  THEN addMembers(cfg, grp, acc, name, grp.of[name].members)
                  ELSE [targets |-> <<>>, errors |-> <<>>, thrown |-> TRUE]
             ELSE IF hasRunnable(cfg, grp, name)
             THEN [acc EXCEPT !.targets = addTarget(@, name)]
             ELSE [acc EXCEPT !.errors =
                     Append(@, [kind |-> "unknownTarget", name |-> name,
                                serviceId |-> name])]
       IN resolveNames(cfg, grp, acc1, Tail(names))

resolveTargets(cfg, grp, names) ==
  resolveNames(cfg, grp, [targets |-> <<>>, errors |-> <<>>, thrown |-> FALSE], names)

Groups == {NoGroup} \cup [present : {TRUE}, members : SeqsUpTo(Names, MaxMembers)]

InitTargets ==
  /\ \E rs \in SUBSET {"a", "b"} :
       /\ rs # {}
       /\ config = [runnables |-> rs, dependsOn |-> [n \in Names |-> <<>>],
                    readyWhen |-> [n \in Names |-> FALSE]]
  /\ InitManager(<<>>)
  /\ BufferIdle
  /\ RunnerIdle
  /\ MainIdle
  /\ \/ groups = [defined |-> FALSE, of |-> [g \in GroupNames |-> NoGroup]]
     \/ groups \in [defined : {TRUE}, of : [GroupNames -> Groups]]
  /\ resolveOp = NoResolve
  /\ PipeIdle
  /\ WriterIdle
  /\ FaultIdle

TargetCommit(op, names) ==
  /\ LET r == resolveTargets(config, groups, names) IN
       resolveOp' = [op |-> op, names |-> names, targets |-> r.targets,
                     errors |-> r.errors, thrown |-> r.thrown]
  /\ UNCHANGED <<groups, managerVars, bufferVars, runnerVars, pipeVars>>

\* resolveTargets(names, config) with the names of the command line
ResolveTargets(names) ==
  /\ resolveOp.op = "none"
  /\ TargetCommit("resolve", names)

\* resolveTargets(targets, config) with the targets a resolution returned
ResolveAgain ==
  /\ resolveOp.op = "resolve"
  /\ ~resolveOp.thrown
  /\ TargetCommit("again", resolveOp.targets)

NextTargets ==
  \/ \E names \in SeqsUpTo(TargetNames, MaxNames) : ResolveTargets(names)
  \/ ResolveAgain

SpecTargets == InitTargets /\ [][NextTargets]_vars

\* ------------------------------------------------------------------------
\* The state file as its readers see it (mcp/state.ts): files of supervisors
\* alive or dead, with JSON that parses or not. A result of NoFile is null.
\* ------------------------------------------------------------------------
\* isProcessRunning(pid): process.kill(pid, 0) does not throw
isProcessRunning(pid) == pid \in livePids

\* readState that returns what the file holds without the probe
readState_noProbe(files, projectRoot) ==
  IF ~files[projectRoot].exists \/ ~files[projectRoot].valid
  THEN [files |-> files, result |-> NoFile]
  ELSE [files |-> files, result |-> files[projectRoot]]

\* readState(projectRoot)
readState(files, projectRoot) ==
  IF ~files[projectRoot].exists
  THEN [files |-> files, result |-> NoFile]
  ELSE IF ~files[projectRoot].valid
  THEN [files |-> files, result |-> NoFile]
  ELSE IF ~isProcessRunning(files[projectRoot].pid)
  THEN [files |-> removeState(files, projectRoot), result |-> NoFile]
  ELSE [files |-> files, result |-> files[projectRoot]]

StateFiles == {NoFile} \cup [exists : {TRUE}, pid : Pids, valid : BOOLEAN]

InitState ==
  /\ config = [runnables |-> {}, dependsOn |-> [n \in Names |-> <<>>],
               readyWhen |-> [n \in Names |-> FALSE]]
  /\ InitManager(<<>>)
  /\ BufferIdle
  /\ RunnerIdle
  /\ stateFiles \in [ProjectRoots -> StateFiles]
  /\ mainProc = [pc |-> "none", exitCode |-> Null, listening |-> FALSE,
                 isCleaningUp |-> FALSE, ui |-> FALSE,
                 quit |-> Null, cleanup |-> Null, stopped |-> {}]
  /\ livePids \in SUBSET Pids
  /\ stateOp = [op |-> "none", projectRoot |-> "", before |-> NoFile, result |-> NoFile]
  /\ TargetIdle
  /\ PipeIdle
  /\ WriterIdle
  /\ FaultIdle

\* a reader (the MCP server) calls readState(projectRoot)
ReadState(projectRoot) ==
  /\ LET r == readState(stateFiles, projectRoot) IN
       /\ stateFiles' = r.files
       /\ stateOp' = [op |-> "readState", projectRoot |-> projectRoot,
                      before |-> stateFiles[projectRoot], result |-> r.result]
  /\ UNCHANGED <<livePids, mainProc>>
  /\ UNCHANGED <<config, ids, instances, outputBuffers, children, waiters,
                 dependencyWatcherSetup, calls, lastOp, emitted, spawned, signalled,
                 resolved, thrown, bufferVars, runnerVars, targetVars, pipeVars, writerVars,
                 faultVars>>

\* a running supervisor of the project writes its state
WriteState(projectRoot, pid) ==
  /\ pid \in livePids
  /\ stateFiles' = [stateFiles EXCEPT ![projectRoot] =
                      [exists |-> TRUE, pid |-> pid, valid |-> TRUE]]
  /\ stateOp' = [op |-> "writeState", projectRoot |-> projectRoot,
                 before |-> stateFiles[projectRoot], result |-> NoFile]
  /\ UNCHANGED <<livePids, mainProc>>
  /\ UNCHANGED <<config, ids, instances, outputBuffers, children, waiters,
                 dependencyWatcherSetup, calls, lastOp, emitted, spawned, signalled,
                 resolved, thrown, bufferVars, runnerVars, targetVars, pipeVars, writerVars,
                 faultVars>>

\* a process ends without removing its file: process.kill(pid, 0) throws
\* from now on
ProcessGone(pid) ==
  /\ pid \in livePids
  /\ livePids' = livePids \ {pid}
  /\ stateOp' = [op |-> "gone", projectRoot |-> "", before |-> NoFile, result |-> NoFile]
  /\ UNCHANGED <<stateFiles, mainProc>>
  /\ UNCHANGED <<config, ids, instances, outputBuffers, children, waiters,
                 dependencyWatcherSetup, calls, lastOp, emitted, spawned, signalled,
                 resolved, thrown, bufferVars, runnerVars, targetVars, pipeVars, writerVars,
                 faultVars>>

NextState ==
  \/ \E projectRoot \in ProjectRoots : ReadState(projectRoot)
  \/ \E projectRoot \in ProjectRoots, pid \in Pids : WriteState(projectRoot, pid)
  \/ \E pid \in Pids : ProcessGone(pid)

SpecState == InitState /\ [][NextState]_vars

\* ------------------------------------------------------------------------
\* main() of the supervisor (index.tsx) from "await ink.start()" on: the
\* manager is initialised, the StateWriter listens and has written the state
\* file. Two runnables that may depend on each other, all of them targets.
\* ------------------------------------------------------------------------
InitMain ==
  /\ config \in [runnables : {{"a", "b"}},
                 dependsOn : {d \in [Names -> SeqsNoDup(Names, MaxDeps)] :
                                /\ Range(d["a"]) \subseteq {"b"}
                                /\ Range(d["b"]) \subseteq {"a"}
                                /\ d["c"] = <<>>},
                 readyWhen : {[n \in Names |-> FALSE]}]
  /\ InitManager(<<"a", "b">>)
  /\ BufferIdle
  /\ RunnerIdle
  /\ stateFiles = writeState([r \in ProjectRoots |-> NoFile], ProjectRoot)
  /\ mainProc = [pc |-> "inkStart", exitCode |-> Null, listening |-> TRUE,
                 isCleaningUp |-> FALSE, ui |-> TRUE,
                 quit |-> Null, cleanup |-> Null, stopped |-> {}]
  /\ livePids = {SupervisorPid}
  /\ stateOp = [op |-> "none", projectRoot |-> "", before |-> NoFile, result |-> NoFile]
  /\ TargetIdle
  /\ PipeIdle
  /\ WriterIdle
  /\ FaultIdle

\* process.on('SIGINT' / 'SIGTERM', cleanup) and "await manager.startAll()";
\* a rejection reaches main().catch: process.exit(1)
MainStartAll ==
  /\ mainProc.pc = "inkStart"
  /\ calls' = [calls EXCEPT !.startAll = @ + 1]
  /\ LET t == getTopologicalOrder IN
     IF t.error # NoError
     THEN /\ Commit([M EXCEPT !.main.pc = "exited", !.main.exitCode = 1, !.main.ui = FALSE],
                    [op |-> "startAll", id |-> "", child |-> 0])
          /\ thrown' = t.error
     ELSE /\ Commit(Drain(startEach([M EXCEPT !.watcher = TRUE,
                                              !.main.pc = "waitUntilExit"], t.order)),
                    [op |-> "startAll", id |-> "", child |-> 0])
          /\ thrown' = NoError

\* SIGINT or SIGTERM to the supervisor, once the handlers are registered
Signal(sig) ==
  /\ mainProc.pc \in {"waitUntilExit", "cleanup"}
  /\ Commit(cleanup(M), [op |-> "signal", id |-> sig, child |-> 0])
  /\ UNCHANGED <<calls, thrown>>

\* q or Ctrl+C in the UI: manager.stopAll().then(() => exit())
Quit ==
  /\ mainProc.ui
  /\ mainProc.pc = "waitUntilExit"
  /\ mainProc.quit = Null
  /\ Commit(stopAll([M EXCEPT !.main.quit = Len(ids)], "quit"),
            [op |-> "quit", id |-> "", child |-> 0])
  /\ UNCHANGED <<calls, thrown>>

\* a key of the UI that reaches the manager, while ink is mounted
MainKey ==
  /\ mainProc.ui
  /\ mainProc.pc = "waitUntilExit"
  /\ calls.start + calls.stop < MaxKeys

NextMain ==
  /\ mainProc.pc # "exited"
  /\ \/ MainStartAll
     \/ \E sig \in {"SIGINT", "SIGTERM"} : Signal(sig)
     \/ Quit
     \/ \E id \in {"a"} : MainKey /\ Restart(id)
     \/ \E id \in Names, p \in 1..MaxChildren : ChildExit(id, p)
     \/ \E id \in Names, p \in 1..MaxChildren : ChildError(id, p)
     \/ \E id \in Names, p \in 1..MaxChildren : GraceTimer(id, p)
     \/ \E id \in Names, p \in 1..MaxChildren : KillTimer(id, p)

SpecMain == InitMain /\ [][NextMain]_vars

\* ------------------------------------------------------------------------
\* The StateWriter next to a running supervisor: one runnable, started by
\* main(), that prints and is restarted from the UI
\* ------------------------------------------------------------------------
InitWriter ==
  /\ config \in [runnables : {{"a"}},
                 dependsOn : {[n \in Names |-> <<>>]},
                 readyWhen : {r \in [Names -> BOOLEAN] : ~r["b"] /\ ~r["c"]}]
  /\ InitManager(<<"a">>)
  /\ BufferIdle
  /\ RunnerIdle
  /\ stateFiles = writeState([r \in ProjectRoots |-> NoFile], ProjectRoot)
  /\ mainProc = [pc |-> "inkStart", exitCode |-> Null, listening |-> TRUE,
                 isCleaningUp |-> FALSE, ui |-> TRUE,
                 quit |-> Null, cleanup |-> Null, stopped |-> {}]
  /\ livePids = {SupervisorPid}
  /\ stateOp = [op |-> "none", projectRoot |-> "", before |-> NoFile, result |-> NoFile]
  /\ TargetIdle
  /\ PipeIdle
  /\ WriterIdle
  /\ FaultIdle

NextWriter ==
  /\ mainProc.pc # "exited"
  /\ \/ MainStartAll
     \/ \E id \in Names : MainKey /\ Restart(id)
     \/ \E id \in Names, p \in 1..MaxChildren : ChildExit(id, p)
     \/ \E id \in Names, p \in 1..MaxChildren : GraceTimer(id, p)
     \/ \E id \in Names, p \in 1..MaxChildren : KillTimer(id, p)
     \/ \E id \in Names, p \in 1..MaxChildren, line \in Lines, stream \in Streams :
          LogData(id, p, line, stream)

SpecWriter == InitWriter /\ [][NextWriter]_vars

\* ------------------------------------------------------------------------
\* The supervisor with a listener that throws: writeState fails (the state
\* directory cannot be written any more) or a handler of a UI subscriber
\* throws. Two runnables, b may depend on a. An exception that nobody
\* catches ends the process.
\* ------------------------------------------------------------------------
InitFault ==
  /\ config \in [runnables : {{"a", "b"}},
                 dependsOn : {d \in [Names -> SeqsNoDup(Names, MaxDeps)] :
                                /\ d["a"] = <<>> /\ d["c"] = <<>>
                                /\ Range(d["b"]) \subseteq {"a"}},
                 readyWhen : {r \in [Names -> BOOLEAN] : ~r["b"] /\ ~r["c"]}]
  /\ InitManager(<<"a", "b">>)
  /\ BufferIdle
  /\ RunnerIdle
  /\ stateFiles = writeState([r \in ProjectRoots |-> NoFile], ProjectRoot)
  /\ mainProc = [pc |-> "inkStart", exitCode |-> Null, listening |-> TRUE,
                 isCleaningUp |-> FALSE, ui |-> TRUE,
                 quit |-> Null, cleanup |-> Null, stopped |-> {}]
  /\ livePids = {SupervisorPid}
  /\ stateOp = [op |-> "none", projectRoot |-> "", before |-> NoFile, result |-> NoFile]
  /\ TargetIdle
  /\ PipeIdle
  /\ WriterIdle
  /\ FaultIdle

\* from now on writeState throws, or the subscriber's handlers do
Fault(kind) ==
  /\ faults = NoFaults
  /\ faults' = [faults EXCEPT ![kind] = TRUE]
  /\ UNCHANGED <<config, ids, instances, outputBuffers, children, waiters,
                 dependencyWatcherSetup, calls, lastOp, emitted, spawned, signalled,
                 resolved, thrown, mainVars, writerVars, escaped,
                 bufferVars, runnerVars, targetVars, pipeVars>>

NextFault ==
  /\ mainProc.pc # "exited"
  /\ ~escaped.uncaught
  /\ \/ \E kind \in {"write", "subscriber"} : Fault(kind)
     \/ MainStartAll
     \/ \E id \in Names : MainKey /\ Restart(id)
     \/ \E id \in Names, p \in 1..MaxChildren : ChildExit(id, p)
     \/ \E id \in Names, p \in 1..MaxChildren : ChildError(id, p)
     \/ \E id \in Names, p \in 1..MaxChildren : GraceTimer(id, p)
     \/ \E id \in Names, p \in 1..MaxChildren : KillTimer(id, p)
     \/ \E id \in Names, p \in 1..MaxChildren, line \in Lines, stream \in Streams :
          Data(id, p, line, stream)

SpecFault == InitFault /\ [][NextFault]_vars

\* ------------------------------------------------------------------------
\* ScriptRunner (src/src/scripts/runner.ts). A runner and the events of the
\* macrotask under way are handled as one value: [r |-> runner, ev |-> events]
\* ------------------------------------------------------------------------
NewScriptRunner == [status |-> "idle", process |-> NoProc, output |-> <<>>,
                    procs |-> <<>>, listeners |-> "none"]

\* cancel(): for a child with a pid, SIGTERM to the process group, or to the
\* child when that throws (fallback: proc.kill sets proc.killed); then the
\* 2 s timer on this child
cancel(st, fallback) ==
  LET p == st.r.process IN
  IF p = NoProc THEN st
  ELSE IF st.r.procs[p].pid
  THEN [r  |-> [st.r EXCEPT !.procs[p].killTimers = @ + 1,
                            !.procs[p].killed = @ \/ fallback],
        ev |-> Append(st.ev, [kind |-> "signal", child |-> p, signal |-> "SIGTERM"])]
  ELSE [st EXCEPT !.r.procs[p].killTimers = @ + 1]

\* run(command, cwd); pid: the shell was spawned
run(st, fallback, pid) ==
  LET st1 == IF st.r.process # NoProc THEN cancel(st, fallback) ELSE st
      n   == Len(st1.r.procs) + 1
  IN [r  |-> [st1.r EXCEPT !.status = "running",
                           !.output = <<>>,
                           !.procs = Append(@, [state |-> "live", pid |-> pid,
                                                code |-> Null,
                                                killTimers |-> 0, killed |-> FALSE]),
                           !.process = n],
      ev |-> Append(st1.ev, [kind |-> "spawn", child |-> n, signal |-> "none"])]

\* proc.on('exit', (code, signal) => ...)
onRunnerExit(st, p, code, signal) ==
  [st EXCEPT !.r.process = NoProc,
             !.r.status = IF code = 0 THEN "success" ELSE "error",
             !.r.procs[p].state = "exited",
             !.r.procs[p].code = code]

\* proc.on('error', (error) => ...)
onRunnerError(st, p) ==
  [st EXCEPT !.r.process = NoProc,
             !.r.status = "error",
             !.r.procs[p].state = "failed"]

\* the stdout / stderr 'data' handlers, for one non-empty line
onRunnerData(st, line) == [st EXCEPT !.r.output = Append(@, line)]

\* the callback of the 2 s timer of cancel()
onRunnerKillTimer(st, p) ==
  LET st1 == [st EXCEPT !.r.procs[p].killTimers = @ - 1] IN
  IF ~st1.r.procs[p].killed /\ st1.r.procs[p].pid
  THEN [st1 EXCEPT !.ev = Append(@, [kind |-> "signal", child |-> p, signal |-> "SIGKILL"])]
  ELSE st1

\* reset()
reset(st) == [st EXCEPT !.r.status = "idle", !.r.output = <<>>]

RunnerCommit(k, st, op) ==
  /\ runners' = [runners EXCEPT ![k] = st.r]
  /\ runnerEvents' = st.ev
  /\ runnerOp' = op
  /\ UNCHANGED <<managerVars, bufferVars, uiVars, targetVars, pipeVars>>

RunnerState(k) == [r |-> runners[k], ev |-> <<>>]

\* runner.run() on an existing runner
Run(k) ==
  /\ k \in 1..Len(runners)
  /\ runnerCalls.run < MaxRuns
  /\ runnerCalls' = [runnerCalls EXCEPT !.run = @ + 1]
  /\ \E fallback \in BOOLEAN, pid \in BOOLEAN :
       RunnerCommit(k, run(RunnerState(k), fallback, pid),
                    [op |-> "run", runner |-> k, child |-> 0])
  /\ UNCHANGED <<scriptRunner, backgroundRunners>>

\* runner.cancel()
Cancel(k) ==
  /\ k \in 1..Len(runners)
  /\ runnerCalls.cancel < MaxCancel
  /\ runnerCalls' = [runnerCalls EXCEPT !.cancel = @ + 1]
  /\ \E fallback \in BOOLEAN :
       RunnerCommit(k, cancel(RunnerState(k), fallback),
                    [op |-> "cancel", runner |-> k, child |-> 0])
  /\ UNCHANGED <<scriptRunner, backgroundRunners>>

\* runner.reset()
Reset(k) ==
  /\ k \in 1..Len(runners)
  /\ RunnerCommit(k, reset(RunnerState(k)), [op |-> "reset", runner |-> k, child |-> 0])
  /\ UNCHANGED <<scriptRunner, backgroundRunners, runnerCalls>>

RunnerExit(k, p) ==
  /\ k \in 1..Len(runners)
  /\ p \in 1..Len(runners[k].procs)
  /\ runners[k].procs[p].state = "live"
  /\ runners[k].procs[p].pid
  /\ \E code \in ExitCodes :
       RunnerCommit(k, onRunnerExit(RunnerState(k), p, code,
                                    IF code = Null THEN "SIGTERM" ELSE "none"),
                    [op |-> "exit", runner |-> k, child |-> p])
  /\ UNCHANGED <<scriptRunner, backgroundRunners, runnerCalls>>

RunnerError(k, p) ==
  /\ k \in 1..Len(runners)
  /\ p \in 1..Len(runners[k].procs)
  /\ runners[k].procs[p].state = "live"
  /\ ~runners[k].procs[p].pid
  /\ RunnerCommit(k, onRunnerError(RunnerState(k), p),
                  [op |-> "error", runner |-> k, child |-> p])
  /\ UNCHANGED <<scriptRunner, backgroundRunners, runnerCalls>>

RunnerData(k, p, line) ==
  /\ k \in 1..Len(runners)
  /\ p \in 1..Len(runners[k].procs)
  /\ runners[k].procs[p].state = "live"
  /\ runners[k].procs[p].pid
  /\ runnerCalls.data < MaxRunnerOutput
  /\ runnerCalls' = [runnerCalls EXCEPT !.data = @ + 1]
  /\ RunnerCommit(k, onRunnerData(RunnerState(k), line),
                  [op |-> "data", runner |-> k, child |-> p])
  /\ UNCHANGED <<scriptRunner, backgroundRunners>>

RunnerKillTimer(k, p) ==
  /\ k \in 1..Len(runners)
  /\ p \in 1..Len(runners[k].procs)
  /\ runners[k].procs[p].killTimers > 0
  /\ RunnerCommit(k, onRunnerKillTimer(RunnerState(k), p),
                  [op |-> "kill", runner |-> k, child |-> p])
  /\ UNCHANGED <<scriptRunner, backgroundRunners, runnerCalls>>

\* SpecRunner: one ScriptRunner used through its methods, as its tests do
InitRunner ==
  /\ config = [runnables |-> {}, dependsOn |-> [n \in Names |-> <<>>],
               readyWhen |-> [n \in Names |-> FALSE]]
  /\ InitManager(<<>>)
  /\ BufferIdle
  /\ runners = <<NewScriptRunner>>
  /\ scriptRunner = 0
  /\ backgroundRunners = <<>>
  /\ runnerCalls = [run |-> 0, cancel |-> 0, data |-> 0]
  /\ runnerOp = [op |-> "new", runner |-> 1, child |-> 0]
  /\ runnerEvents = <<>>
  /\ outputLines = <<>>
  /\ pendingOutputLines = <<>>
  /\ backgroundScripts = <<>>
  /\ MainIdle
  /\ TargetIdle
  /\ PipeIdle
  /\ WriterIdle
  /\ FaultIdle

NextRunner ==
  \/ \E k \in 1..MaxRunners : Run(k)
  \/ \E k \in 1..MaxRunners : Cancel(k)
  \/ \E k \in 1..MaxRunners : Reset(k)
  \/ \E k \in 1..MaxRunners, p \in 1..MaxRuns : RunnerExit(k, p)
  \/ \E k \in 1..MaxRunners, p \in 1..MaxRuns : RunnerError(k, p)
  \/ \E k \in 1..MaxRunners, p \in 1..MaxRuns, line \in Lines : RunnerData(k, p, line)
  \/ \E k \in 1..MaxRunners, p \in 1..MaxRuns : RunnerKillTimer(k, p)

SpecRunner == InitRunner /\ [][NextRunner]_vars

\* ------------------------------------------------------------------------
\* The ephemeral commands of the UI (src/src/ui/App.tsx). Each handler runs on
\* the state of the latest render; the subscription effect of the foreground
\* runner is taken with the handler that sets scriptRunner. The key of a
\* background runner, bg-<Date.now()>, is its position in backgroundRunners:
\* two minimizes are several key presses and renders apart. 0 marks a deleted
\* key. A handler of a key press reads the React state of the latest render
\* (ol); a render follows every key press before the next one, while events
\* of a child may come before the render their updaters (pend) asked for.
\* The updaters of backgroundScripts are functional and applied in order (bs).
\* App state of the macrotask under way:
\* [rs |-> runners, sr |-> scriptRunner, bg |-> backgroundRunners, ev |-> events,
\*  ol |-> outputLines, pend |-> pendingOutputLines, bs |-> backgroundScripts]
\* ------------------------------------------------------------------------
AppState == [rs |-> runners, sr |-> scriptRunner, bg |-> backgroundRunners, ev |-> <<>>,
             ol |-> outputLines, pend |-> pendingOutputLines, bs |-> backgroundScripts]

\* the render after a handler that set state: queued updaters are applied
render(a) == [a EXCEPT !.ol = a.ol \o a.pend, !.pend = <<>>]

runnerOf(a, k) == [r |-> a.rs[k], ev |-> a.ev]

withRunner(a, k, st) == [a EXCEPT !.rs[k] = st.r, !.ev = st.ev]

\* backgroundRunnersRef.current.get(id)
getBackgroundRunner(a, id) == IF id \in 1..Len(a.bg) THEN a.bg[id] ELSE 0

\* handleRunCommand(command, cwd)
handleRunCommand(a, pid) ==
  LET k  == Len(a.rs) + 1
      a1 == [a EXCEPT !.rs = Append(@, [NewScriptRunner EXCEPT !.listeners = "foreground"]),
                      !.sr = k,
                      !.ol = <<>>,
                      !.pend = <<>>]
  IN withRunner(a1, k, run(runnerOf(a1, k), FALSE, pid))

\* handleRerun(): a fresh runner; the effect cleanup unsubscribes the old one
handleRerun(a, pid) ==
  LET a1 == IF a.sr = 0 THEN a ELSE [a EXCEPT !.rs[a.sr].listeners = "none"]
  IN handleRunCommand(a1, pid)

\* handleCloseOutput()
handleCloseOutput(a, fallback) ==
  IF a.sr = 0 THEN a
  ELSE LET a1 == withRunner(a, a.sr, cancel(runnerOf(a, a.sr), fallback))
       IN render([a1 EXCEPT !.rs[a.sr].listeners = "none", !.sr = 0])

\* handleCancel()
handleCancel(a, fallback) ==
  IF a.sr = 0 THEN a
  ELSE withRunner(a, a.sr, cancel(runnerOf(a, a.sr), fallback))

\* the status of the BackgroundScript entry made for a runner
bgStatus(status) == IF status \in {"running", "success"} THEN status ELSE "error"

\* handleMinimize()
handleMinimize(a) ==
  IF a.sr = 0 THEN a
  ELSE render([a EXCEPT !.rs[a.sr].listeners = "background",
                        !.bg = Append(@, a.sr),
                        !.bs = Append(@, [present |-> TRUE,
                                          output |-> a.ol,
                                          status |-> bgStatus(a.rs[a.sr].status)]),
                        !.sr = 0])

\* handleRestoreScript(id)
handleRestoreScript(a, id) ==
  LET k == getBackgroundRunner(a, id) IN
  IF k = 0 THEN a
  ELSE LET a1 == [a EXCEPT !.bg[id] = 0,
                           !.bs[id].present = FALSE,
                           !.ol = a.bs[id].output,
                           !.pend = <<>>]
       IN IF a.bs[id].status = "running"
          THEN [a1 EXCEPT !.rs[k].listeners = "restored"]
          ELSE a1

\* handleDismissScript(id)
handleDismissScript(a, id) ==
  IF id \in 1..Len(a.bg)
  THEN render([a EXCEPT !.bg[id] = 0, !.bs[id].present = FALSE])
  ELSE a

\* the background id whose listeners of handleMinimize are on runner k
\* (0: its entry is gone, the updaters of the listeners change nothing)
bgIdOf(a, k) ==
  IF \E id \in 1..Len(a.bs) : a.bg[id] = k /\ a.bs[id].present
  THEN CHOOSE id \in 1..Len(a.bs) : a.bg[id] = k /\ a.bs[id].present
  ELSE 0

\* runner.emit('output', line) to the listeners App attached
emitOutput(a, k, line) ==
  LET l == a.rs[k].listeners IN
  IF l \in {"foreground", "restored"} THEN [a EXCEPT !.pend = Append(@, line)]
  ELSE IF l = "background" /\ bgIdOf(a, k) # 0
  THEN [a EXCEPT !.bs[bgIdOf(a, k)].output = Append(@, line)]
  ELSE a

\* runner.emit('exit', code, signal) to the listeners App attached
emitExit(a, k, code) ==
  LET l == a.rs[k].listeners IN
  IF l = "background" /\ bgIdOf(a, k) # 0
  THEN [a EXCEPT !.bs[bgIdOf(a, k)].status = IF code = 0 THEN "success" ELSE "error"]
  ELSE a

\* handleCancelBackgroundScript(id) that finds no runner
handleCancelBackgroundScript_lost(a, id, fallback) == a

\* handleCancelBackgroundScript(id)
handleCancelBackgroundScript(a, id, fallback) ==
  LET k == getBackgroundRunner(a, id) IN
  IF k = 0 THEN a
  ELSE withRunner(a, k, cancel(runnerOf(a, k), fallback))

AppCommit(a, op) ==
  /\ runners' = a.rs
  /\ scriptRunner' = a.sr
  /\ backgroundRunners' = a.bg
  /\ runnerEvents' = a.ev
  /\ runnerOp' = op
  /\ outputLines' = a.ol
  /\ pendingOutputLines' = a.pend
  /\ backgroundScripts' = a.bs
  /\ UNCHANGED <<managerVars, bufferVars, targetVars, pipeVars>>

\* Enter in the command palette; the palette opens in normal mode only, where
\* no foreground runner is set
HandleRunCommand ==
  /\ scriptRunner = 0
  /\ Len(runners) < MaxRunners
  /\ runnerCalls.run < MaxRuns
  /\ runnerCalls' = [runnerCalls EXCEPT !.run = @ + 1]
  /\ \E pid \in BOOLEAN :
       AppCommit(handleRunCommand(AppState, pid),
                 [op |-> "runCommand", runner |-> Len(runners) + 1, child |-> 1])

\* r in the output overlay, which passes it on when the status is not running
HandleRerun ==
  /\ scriptRunner # 0
  /\ runners[scriptRunner].status # "running"
  /\ Len(runners) < MaxRunners
  /\ runnerCalls.run < MaxRuns
  /\ runnerCalls' = [runnerCalls EXCEPT !.run = @ + 1]
  /\ \E pid \in BOOLEAN :
       AppCommit(handleRerun(AppState, pid),
                 [op |-> "rerun", runner |-> Len(runners) + 1, child |-> 1])

\* Enter or Escape in the output overlay
HandleCloseOutput ==
  /\ scriptRunner # 0
  /\ runnerCalls.cancel < MaxCancel
  /\ runnerCalls' = [runnerCalls EXCEPT !.cancel = @ + 1]
  /\ \E fallback \in BOOLEAN :
       AppCommit(handleCloseOutput(AppState, fallback),
                 [op |-> "closeOutput", runner |-> scriptRunner, child |-> 0])

\* Ctrl+C in the output overlay, which passes it on when the status is running
HandleCancel ==
  /\ scriptRunner # 0
  /\ runners[scriptRunner].status = "running"
  /\ runnerCalls.cancel < MaxCancel
  /\ runnerCalls' = [runnerCalls EXCEPT !.cancel = @ + 1]
  /\ \E fallback \in BOOLEAN :
       AppCommit(handleCancel(AppState, fallback),
                 [op |-> "cancel", runner |-> scriptRunner, child |-> 0])

\* m in the output overlay
HandleMinimize ==
  /\ scriptRunner # 0
  /\ UNCHANGED runnerCalls
  /\ AppCommit(handleMinimize(AppState),
               [op |-> "minimize", runner |-> scriptRunner, child |-> 0])

HandleRestoreScript(id) ==
  /\ getBackgroundRunner(AppState, id) # 0
  /\ scriptRunner = 0
  /\ UNCHANGED runnerCalls
  /\ AppCommit(handleRestoreScript(AppState, id),
               [op |-> "restore", runner |-> backgroundRunners[id], child |-> 0])

HandleDismissScript(id) ==
  /\ getBackgroundRunner(AppState, id) # 0
  /\ UNCHANGED runnerCalls
  /\ AppCommit(handleDismissScript(AppState, id),
               [op |-> "dismiss", runner |-> backgroundRunners[id], child |-> 0])

HandleCancelBackgroundScript(id) ==
  /\ id \in 1..Len(backgroundRunners)
  /\ runnerCalls.cancel < MaxCancel
  /\ runnerCalls' = [runnerCalls EXCEPT !.cancel = @ + 1]
  /\ \E fallback \in BOOLEAN :
       AppCommit(handleCancelBackgroundScript(AppState, id, fallback),
                 [op |-> "cancelBackground", runner |-> backgroundRunners[id], child |-> 0])

\* the render React scheduled for queued setOutputLines updaters
Render ==
  /\ pendingOutputLines # <<>>
  /\ UNCHANGED runnerCalls
  /\ AppCommit(render(AppState), [op |-> "render", runner |-> 0, child |-> 0])

\* a line on stdout or stderr of the child of runner k
AppData(k, line) ==
  /\ k \in 1..Len(runners)
  /\ runners[k].procs[1].state = "live"
  /\ runners[k].procs[1].pid
  /\ runnerCalls.data < MaxRunnerOutput
  /\ runnerCalls' = [runnerCalls EXCEPT !.data = @ + 1]
  /\ AppCommit(emitOutput(withRunner(AppState, k, onRunnerData(runnerOf(AppState, k), line)),
                          k, line),
               [op |-> "data", runner |-> k, child |-> 1])

\* the exit of the child of runner k
AppExit(k) ==
  /\ k \in 1..Len(runners)
  /\ runners[k].procs[1].state = "live"
  /\ runners[k].procs[1].pid
  /\ UNCHANGED runnerCalls
  /\ \E code \in ExitCodes :
       AppCommit(emitExit(withRunner(AppState, k,
                            onRunnerExit(runnerOf(AppState, k), 1, code,
                                         IF code = Null THEN "SIGTERM" ELSE "none")),
                          k, code),
                 [op |-> "exit", runner |-> k, child |-> 1])

\* App attaches no 'error' listener to its runners: emit('error') of the
\* 'error' handler throws and the uncaught exception ends the UI
AppRunning == runnerOp.op # "error"

InitApp ==
  /\ config = [runnables |-> {}, dependsOn |-> [n \in Names |-> <<>>],
               readyWhen |-> [n \in Names |-> FALSE]]
  /\ InitManager(<<>>)
  /\ BufferIdle
  /\ RunnerIdle
  /\ MainIdle
  /\ TargetIdle
  /\ PipeIdle
  /\ WriterIdle
  /\ FaultIdle

NextApp ==
  /\ AppRunning
  /\ \/ HandleRunCommand
     \/ HandleRerun
     \/ HandleCloseOutput
     \/ HandleCancel
     \/ HandleMinimize
     \/ \E id \in 1..MaxRunners : HandleRestoreScript(id)
     \/ \E id \in 1..MaxRunners : HandleDismissScript(id)
     \/ \E id \in 1..MaxRunners : HandleCancelBackgroundScript(id)
     \/ Render
     \/ \E k \in 1..MaxRunners : AppExit(k)
     \/ \E k \in 1..MaxRunners : RunnerError(k, 1)
     \/ \E k \in 1..MaxRunners, line \in Lines : AppData(k, line)
     \/ \E k \in 1..MaxRunners : RunnerKillTimer(k, 1)

SpecApp == InitApp /\ [][NextApp]_vars

\* ------------------------------------------------------------------------
\* Properties
\* ------------------------------------------------------------------------
Count(x, seq) == Cardinality({i \in 1..Len(seq) : seq[i] = x})

EmittedFor(events, id) == {events[i][2] : i \in {j \in 1..Len(events) : events[j][1] = id}}

\* the dependsOn graph, independently of Kahn's algorithm
RECURSIVE ReachWithin(_, _, _)
ReachWithin(S, Nodes, n) ==
  IF n = 0 THEN S
  ELSE ReachWithin(S \cup (UNION {Range(config.dependsOn[x]) : x \in S} \cap Nodes),
                   Nodes, n - 1)

ClosureWithin(S, Nodes) == ReachWithin(S, Nodes, Cardinality(Names))

OnCycle(id) == id \in ClosureWithin(Range(dependsOn(id)) \cap IdSet, IdSet)

HasCycle == \E id \in IdSet : OnCycle(id)

Undrained == {id \in IdSet : \E n \in ClosureWithin({id}, IdSet) : OnCycle(n)}

Dangling == {pr \in Range(DepPairs) : pr.dep \notin IdSet}

StartAllChangedNothing ==
  /\ UNCHANGED <<instances, outputBuffers, children, waiters, dependencyWatcherSetup>>
  /\ emitted' = <<>>
  /\ spawned' = <<>>

\* C1: whenever a runnable with a non-empty dependsOn goes from waiting to
\* starting other than by a direct start(id) call, every id of its dependsOn
\* has status running
C1_DepsRunningAtSpawn ==
  [][lastOp'.op # "start" =>
       \A id \in IdSet :
         (/\ dependsOn(id) # <<>>
          /\ instances[id].status = "waiting"
          /\ instances'[id].status = "starting")
         => \A d \in Range(dependsOn(id)) : instances'[d].status = "running"]_vars

\* C2 (as stated): if the dependsOn graph over the initialised runnables has a
\* cycle, startAll rejects with "Dependency cycle detected" listing the
\* undrained runnables, spawns nothing and changes no instance
C2_CycleAlwaysReported ==
  [][(lastOp'.op = "startAll" /\ HasCycle) =>
       /\ thrown'.kind = "Dependency cycle detected"
       /\ Range(thrown'.list) = Undrained
       /\ StartAllChangedNothing]_vars

\* C2 (amended): if every dependsOn id is an initialised runnable and the graph
\* has a cycle, startAll rejects with "Dependency cycle detected" listing, in
\* instance order, exactly the runnables the sort left undrained (those on a
\* cycle or depending on one), spawns nothing and changes no instance
C2_CycleReported ==
  [][(lastOp'.op = "startAll" /\ HasCycle /\ Dangling = {}) =>
       /\ thrown'.kind = "Dependency cycle detected"
       /\ thrown'.list = SelectSeq(ids, LAMBDA id : id \in Undrained)
       /\ StartAllChangedNothing]_vars

C2_Witness ==
  /\ lastOp.op = "startAll"
  /\ thrown.kind = "Dependency cycle detected"
  /\ Len(thrown.list) = 2
  /\ Len(ids) = 3
  /\ \A id \in IdSet : instances[id].status = "stopped" /\ children[id] = <<>>

\* C3: if some initialised runnable lists a dependsOn id that is not an
\* initialised runnable, startAll rejects with an error naming that runnable,
\* the dangling dependency and the known ids, and spawns nothing
C3_UnknownDependency ==
  [][(lastOp'.op = "startAll" /\ Dangling # {}) =>
       /\ thrown'.kind = "Unknown dependency"
       /\ [id |-> thrown'.id, dep |-> thrown'.dep] \in Dangling
       /\ thrown'.list = ids
       /\ spawned' = <<>>
       /\ children' = children]_vars

C3_Witness ==
  /\ lastOp.op = "startAll"
  /\ thrown.kind = "Unknown dependency"
  /\ thrown.dep \notin config.runnables
  /\ \A id \in IdSet : children[id] = <<>>

\* C4: starting the targets T starts every runnable of the transitive closure
\* of T over dependsOn, when that closure is defined in the config and acyclic
C4_ClosureStarted ==
  LET S == ClosureWithin(IdSet, Names) IN
  (/\ lastOp.op = "startAll"
   /\ calls.startAll = 1
   /\ S \subseteq config.runnables
   /\ \A id \in S : id \notin ClosureWithin(Range(config.dependsOn[id]), Names))
  => \A id \in S : id \in IdSet /\ instances[id].status \in {"starting", "waiting"}

\* C5: after startAll on freshly initialised runnables, every runnable without
\* dependencies has been spawned and is starting, and every runnable with
\* dependencies is waiting with waitingFor equal to its dependsOn
C5_StartAllFresh ==
  (lastOp.op = "startAll" /\ calls.startAll = 1 /\ calls.start = 0 /\ thrown = NoError) =>
     \A id \in IdSet :
       IF dependsOn(id) = <<>>
       THEN /\ instances[id].status = "starting"
            /\ instances[id].process = 1
            /\ Len(children[id]) = 1
            /\ children[id][1].state = "live"
            /\ Count(id, spawned) = 1
       ELSE /\ instances[id].status = "waiting"
            /\ instances[id].waitingFor = dependsOn(id)
            /\ instances[id].process = NoProc
            /\ children[id] = <<>>

C5_Witness ==
  /\ lastOp.op = "startAll" /\ calls.startAll = 1 /\ calls.start = 0
  /\ \E id \in IdSet : instances[id].status = "starting"
  /\ \E id \in IdSet : instances[id].status = "waiting" /\ Len(instances[id].waitingFor) = 2

\* C6: when a dependency's status changes to error or stopped while a
\* dependent is waiting with it in waitingFor, the dependent stays waiting,
\* keeps its waitingFor and gets no process
C6_WaiterKeptOnFailure ==
  [][\A w \in IdSet, d \in IdSet :
       (/\ instances[w].status = "waiting"
        /\ d \in Range(instances[w].waitingFor)
        /\ EmittedFor(emitted', d) \cap {"error", "stopped"} # {})
       => /\ instances'[w] = instances[w]
          /\ children'[w] = children[w]
          /\ w \notin Range(spawned')]_vars

C6_Witness ==
  /\ lastOp.op \in {"exit", "error"}
  /\ instances[lastOp.id].status \in {"error", "stopped"}
  /\ \E w \in IdSet :
       /\ instances[w].status = "waiting"
       /\ lastOp.id \in Range(instances[w].waitingFor)
       /\ children[w] = <<>>

\* C7: when status-change running is emitted for d and a waiting runnable has
\* d in its waitingFor with every id of its waitingFor running, its waitingFor
\* is cleared and exactly one process is spawned for it
C7_WaiterStartedOnce ==
  [][\A w \in IdSet, d \in IdSet :
       (/\ "running" \in EmittedFor(emitted', d)
        /\ instances[w].status = "waiting"
        /\ d \in Range(instances[w].waitingFor)
        /\ \A x \in Range(instances[w].waitingFor) : instances'[x].status = "running")
       => /\ instances'[w].waitingFor = <<>>
          /\ instances'[w].status = "starting"
          /\ Count(w, spawned') = 1
          /\ Len(children'[w]) = Len(children[w]) + 1
          /\ instances'[w].process = Len(children'[w])]_vars

C7_Witness ==
  /\ lastOp.op = "grace"
  /\ "running" \in EmittedFor(emitted, lastOp.id)
  /\ \E w \in IdSet :
       /\ lastOp.id \in Range(dependsOn(w))
       /\ spawned = <<w>>
       /\ instances[w].status = "starting"
       /\ instances[w].waitingFor = <<>>

\* C8: start(id) on a running or starting instance spawns nothing, emits no
\* status-change and leaves buffers, error and startedAt (every field) as is
C8_StartNoOp ==
  [][(lastOp'.op = "start" /\ instances[lastOp'.id].status \in {"running", "starting"}) =>
       /\ UNCHANGED <<instances, outputBuffers, children, waiters>>
       /\ emitted' = <<>>
       /\ spawned' = <<>>]_vars

C8_Witness ==
  /\ lastOp.op = "start"
  /\ emitted = <<>>
  /\ instances[lastOp.id].status \in {"running", "starting"}
  /\ outputBuffers[lastOp.id].output.size > 0

\* C9: startAll emits no status-change and spawns no process for a runnable
\* that is already running or starting, with or without dependencies
C9_StartAllSkipsStarted ==
  [][lastOp'.op = "startAll" =>
       \A id \in IdSet :
         instances[id].status \in {"running", "starting"}
         => EmittedFor(emitted', id) = {} /\ id \notin Range(spawned')]_vars

\* C10: when a child exits, the process handle is cleared and the status is
\* stopped for code 0, SIGTERM or SIGINT, and otherwise error with the
\* message "Exited with code N"
C10_ExitClassified ==
  lastOp.op = "exit" =>
    LET instance == instances[lastOp.id] IN
    /\ instance.process = NoProc
    /\ children[lastOp.id][lastOp.child].state = "exited"
    /\ IF lastOp.code = 0 \/ lastOp.signal \in {"SIGTERM", "SIGINT"}
       THEN instance.status = "stopped" /\ instance.error = Undefined
       ELSE /\ instance.status = "error"
            /\ instance.error = (CASE lastOp.code = 1 -> "Exited with code 1"
                                   [] lastOp.code = Null -> "Exited with code null")

C10_Witness ==
  /\ lastOp.op = "exit"
  /\ lastOp.signal = "SIGINT"
  /\ instances[lastOp.id].status = "stopped"
  /\ \E id \in IdSet : instances[id].status = "error" /\ instances[id].error = "Exited with code 1"

\* the stripped combined output of id contains "ok": with the lines of the
\* model, exactly when the coloured line is among the stored lines
PlainReady(b) ==
  \E i \in 0..(b.size - 1) : b.buffer[(b.start + i) % b.capacity] = <<"o", Sgr, "k">>

\* C11: a runnable with readyWhen goes from starting to running exactly when a
\* line is appended and the predicate holds of the ANSI-stripped combined
\* output; otherwise the only status-change emitted for it while it is
\* starting is the stopped/error of its child ending (exit, or failed spawn)
C11_ReadyWhenOnly ==
  [][\A id \in IdSet :
       (config.readyWhen[id] /\ instances[id].status = "starting") =>
         LET matched == /\ lastOp'.op = "data"
                        /\ lastOp'.id = id
                        /\ PlainReady(outputBuffers'[id].output)
         IN /\ (instances'[id].status = "running") <=> matched
            /\ ~matched =>
                 /\ EmittedFor(emitted', id) \subseteq {"stopped", "error"}
                 /\ EmittedFor(emitted', id) # {} =>
                      lastOp'.op \in {"exit", "error"} /\ lastOp'.id = id]_vars

\* C12: a runnable without readyWhen becomes running exactly when the grace
\* timer armed at its most recent spawn fires while its status is starting
C12_GraceOfLatestSpawn ==
  [][\A id \in IdSet :
       ~config.readyWhen[id] =>
         ((instances[id].status # "running" /\ instances'[id].status = "running")
          <=> (/\ lastOp'.op = "grace"
               /\ lastOp'.id = id
               /\ lastOp'.child = Len(children[id])
               /\ instances[id].status = "starting"))]_vars

\* C13: when a stop(id) that found a process resolves, that child has exited,
\* the instance holds no process and its status is stopped
C13_StopResolvesStopped ==
  \A i \in 1..Len(resolved) :
    resolved[i].child # 0 =>
      /\ resolved[i].exited
      /\ resolved[i].process = NoProc
      /\ resolved[i].status = "stopped"

NoLiveChild(id) == \A p \in 1..Len(children[id]) : children[id][p].state # "live"

C15_RestartFresh ==
  [][\A id \in IdSet :
       LET n == Len(children[id]) IN
       /\ (n > 0 /\ children[id][n].term /\ Len(children'[id]) = n + 1) =>
            /\ outputBuffers'[id].stdout.size = 0
            /\ outputBuffers'[id].stderr.size = 0
            /\ outputBuffers'[id].output.size = 0
            /\ instances'[id].error = Undefined
            /\ instances'[id].startedAt = n + 1
            /\ instances'[id].process = n + 1
       /\ (/\ lastOp'.op = "data"
           /\ lastOp'.id = id
           /\ children[id][lastOp'.child].term
           /\ instances[id].process \notin {NoProc, lastOp'.child})
          => outputBuffers'[id] = outputBuffers[id]]_vars

\* the last n elements of a sequence
Suffix(seq, n) == SubSeq(seq, Len(seq) - n + 1, Len(seq))

\* C16: after any pushes and clears on a buffer made with capacity c (a
\* negative c counts as 0) the buffer holds at most c lines, and toArray() is
\* the last min(k, c) of the k lines pushed since the last clear, in order
C16_RingBuffer ==
  LET c == IF logHistory.capacity < 0 THEN 0 ELSE logHistory.capacity
      k == Len(logHistory.pushed)
      n == IF k < c THEN k ELSE c
  IN /\ logBuffer.size <= c
     /\ logBuffer.size = n
     /\ BufToArray(logBuffer) = Suffix(logHistory.pushed, n)
     /\ bufferOp.op = "toArray" => bufferOp.result = Suffix(logHistory.pushed, n)

C16_Witness ==
  /\ logHistory.capacity = 2
  /\ Len(logHistory.pushed) = 3
  /\ logHistory.pushed[1] # logHistory.pushed[3]
  /\ logBuffer.start = 1
  /\ bufferOp.op = "toArray"
  /\ bufferOp.result = <<logHistory.pushed[2], logHistory.pushed[3]>>

\* C17: tail(n) is the suffix of toArray() of length min(max(n, 0), length)
C17_TailIsSuffix ==
  bufferOp.op = "tail" =>
    LET all == BufToArray(logBuffer)
        m   == IF bufferOp.n < 0 THEN 0 ELSE bufferOp.n
        len == IF m < Len(all) THEN m ELSE Len(all)
    IN /\ Len(bufferOp.result) = len
       /\ bufferOp.result = Suffix(all, len)
       /\ bufferOp.result = Suffix(logHistory.pushed, len)

C17_Witness ==
  /\ bufferOp.op = "tail"
  /\ bufferOp.n = 2
  /\ logBuffer.capacity = 3
  /\ logBuffer.size = 3
  /\ logBuffer.start = 2
  /\ Len(bufferOp.result) = 2
  /\ bufferOp.result[1] # bufferOp.result[2]

\* the child of the latest command of runner k
LatestCommand(k) == runners[k].procs[Len(runners[k].procs)]

\* C18: the status of a ScriptRunner changes only by Run (to running), by the
\* exit of the command under way (running to success when its code is 0,
\* running to error otherwise), by its spawn failure (running to error) and
\* by Reset (to idle, with empty output); it is success only when the code of
\* the latest command was 0
C18_StatusTransitions ==
  [][\A k \in 1..Len(runners) :
       LET a == runners[k].status
           b == runners'[k].status
           n == Len(runners[k].procs)
       IN /\ a # b =>
               \/ b = "running" /\ runnerOp'.op = "run" /\ runnerOp'.runner = k
               \/ /\ a = "running" /\ b = "success"
                  /\ runnerOp'.op = "exit" /\ runnerOp'.runner = k
                  /\ runnerOp'.child = n
                  /\ runners'[k].procs[n].code = 0
               \/ /\ a = "running" /\ b = "error"
                  /\ runnerOp'.op \in {"exit", "error"} /\ runnerOp'.runner = k
                  /\ runnerOp'.child = n
                  /\ runners'[k].procs[n].code # 0
               \/ /\ b = "idle"
                  /\ runnerOp'.op = "reset" /\ runnerOp'.runner = k
                  /\ runners'[k].output = <<>>
          /\ b = "success" =>
               /\ runners'[k].procs[n].state = "exited"
               /\ runners'[k].procs[n].code = 0
    ]_vars

\* C19: a run() on a runner whose latest command is still running sends
\* SIGTERM to that command before it spawns the new child
C19_RunCancelsPrevious ==
  [][\A k \in 1..Len(runners) :
       LET n == Len(runners[k].procs) IN
       (/\ runnerOp'.op = "run" /\ runnerOp'.runner = k
        /\ n > 0
        /\ runners[k].procs[n].state = "live"
        /\ runners[k].procs[n].pid)
       => /\ Len(runnerEvents') = 2
          /\ runnerEvents'[1] = [kind |-> "signal", child |-> n, signal |-> "SIGTERM"]
          /\ runnerEvents'[2] = [kind |-> "spawn", child |-> n + 1, signal |-> "none"]
    ]_vars

\* C20: handleMinimize of a running command changes only the listeners of the
\* runner and its owner (no signal, same status, process handle and output),
\* and a later handleCancelBackgroundScript with the key of the runner sends
\* SIGTERM to the child of that command while it runs
C20_MinimizeListenerSwap ==
  [][/\ (runnerOp'.op = "minimize" /\ runners[scriptRunner].status = "running") =>
          LET k == scriptRunner IN
          /\ runnerEvents' = <<>>
          /\ runners' = [runners EXCEPT ![k].listeners = "background"]
          /\ runners'[k].status = runners[k].status
          /\ runners'[k].process = runners[k].process
          /\ runners'[k].output = runners[k].output
          /\ runners'[k].procs = runners[k].procs
          /\ backgroundRunners' = Append(backgroundRunners, k)
     /\ \A id \in 1..Len(backgroundRunners) :
          LET k == backgroundRunners[id] IN
          (/\ runnerOp'.op = "cancelBackground"
           /\ runnerOp'.runner = k
           /\ k # 0
           /\ runners[k].listeners = "background"
           /\ runners[k].procs[1].state = "live"
           /\ runners[k].procs[1].pid)
          => /\ runnerEvents' = <<[kind |-> "signal", child |-> 1, signal |-> "SIGTERM"]>>
             /\ runners'[k].procs[1].killTimers = runners[k].procs[1].killTimers + 1
    ]_vars

C20_Witness ==
  /\ runnerOp.op = "cancelBackground"
  /\ Len(backgroundRunners) = 1
  /\ backgroundRunners[1] = 1
  /\ runners[1].listeners = "background"
  /\ runners[1].status = "running"
  /\ Len(runners[1].output) = 1
  /\ runners[1].procs[1].killTimers = 1
  /\ runnerEvents = <<[kind |-> "signal", child |-> 1, signal |-> "SIGTERM"]>>

\* C21: the output of a background entry is the sequence of all lines its
\* runner emitted, before and after the minimize, each once and in order, and
\* the entry has the status of the exit of its command
C21_HandoffKeepsOutput ==
  \A id \in 1..Len(backgroundScripts) :
    LET k == backgroundRunners[id] IN
    (backgroundScripts[id].present /\ k # 0) =>
      /\ backgroundScripts[id].output = runners[k].output
      /\ runners[k].procs[1].state = "exited" =>
           backgroundScripts[id].status = runners[k].status

\* C22: once the supervisor has exited, its state file does not exist; and
\* from stateWriter.stop() on (cleanup) no snapshot is written
C22_StateFileRemoved ==
  /\ mainProc.pc = "exited" => ~stateFiles[ProjectRoot].exists
  /\ mainProc.isCleaningUp => ~stateFiles[ProjectRoot].exists

\* C26: a SIGINT or SIGTERM outside a shutdown calls stop() for every instance
\* (SIGTERM to every child held); the supervisor exits with code 0 only when
\* every child that stopAll() of cleanup waited for has exited; a signal
\* during the shutdown sends nothing and changes nothing
C26_SignalShutdown ==
  [][/\ (lastOp'.op = "signal" /\ ~mainProc.isCleaningUp) =>
          /\ mainProc'.isCleaningUp
          /\ mainProc'.stopped = Awaited(M)
          /\ \A pr \in Awaited(M) :
               \E i \in 1..Len(signalled') :
                 signalled'[i] = [id |-> pr[1], child |-> pr[2], signal |-> "SIGTERM"]
     /\ (mainProc'.exitCode = 0 /\ mainProc.exitCode = Null) =>
          /\ mainProc'.isCleaningUp
          /\ \A pr \in mainProc'.stopped : children'[pr[1]][pr[2]].state = "exited"
     /\ (lastOp'.op = "signal" /\ mainProc.isCleaningUp) =>
          /\ signalled' = <<>>
          /\ mainProc' = mainProc
          /\ instances' = instances
          /\ children' = children
    ]_vars

C26_Witness ==
  /\ mainProc.pc = "exited"
  /\ mainProc.exitCode = 0
  /\ mainProc.quit = Null
  /\ Cardinality(mainProc.stopped) = 2
  /\ \A pr \in mainProc.stopped : children[pr[1]][pr[2]].state = "exited"

\* C23: readState(projectRoot) returns a state only if the file of that
\* project root exists and its pid is alive, and then it is the stored state;
\* with a recorded pid that is not alive it returns null and the file is gone;
\* files of other project roots are left alone
C23_ReadState ==
  [][\A root \in ProjectRoots :
       (stateOp'.op = "readState" /\ stateOp'.projectRoot = root) =>
         LET file == stateFiles[root] IN
         /\ stateOp'.result # NoFile =>
              /\ file.exists
              /\ file.pid \in livePids
              /\ stateOp'.result = file
              /\ stateFiles' = stateFiles
         /\ (file.exists /\ file.valid /\ file.pid \notin livePids) =>
              /\ stateOp'.result = NoFile
              /\ ~stateFiles'[root].exists
         /\ \A other \in ProjectRoots \ {root} : stateFiles'[other] = stateFiles[other]
    ]_vars

C23_Witness ==
  /\ stateOp.op = "readState"
  /\ stateOp.projectRoot = "p"
  /\ stateOp.before.exists
  /\ stateOp.before.valid
  /\ stateOp.before.pid \notin livePids
  /\ stateOp.result = NoFile
  /\ ~stateFiles["p"].exists
  /\ stateFiles["q"].exists

\* what the names of a call stand for: the valid members of the group of
\* that name if the config has one, else the name itself if it is a runnable
ownGroup(name) == groups.defined /\ name \in GroupNames /\ groups.of[name].present

validTargets(name) ==
  IF ownGroup(name)
  THEN {id \in Range(groups.of[name].members) : id \in config.runnables}
  ELSE IF name \in config.runnables THEN {name} ELSE {}

unknownNames(names) ==
  {i \in DOMAIN names : ~ownGroup(names[i]) /\ names[i] \notin config.runnables}

unknownMembers(names) ==
  {p \in (DOMAIN names) \X (1..MaxMembers) :
     /\ ownGroup(names[p[1]])
     /\ p[2] \in DOMAIN groups.of[names[p[1]]].members
     /\ groups.of[names[p[1]]].members[p[2]] \notin config.runnables}

\* C24: resolveTargets returns as targets exactly the duplicate-free set of
\* valid runnable ids its names stand for (a group's valid members, else the
\* runnable of that name), and one error for each unknown name and for each
\* unknown member of a named group.
C24_ResolveTargets ==
  resolveOp.op = "resolve" =>
    LET names == resolveOp.names IN
      /\ ~resolveOp.thrown
      /\ Range(resolveOp.targets) = UNION {validTargets(names[i]) : i \in DOMAIN names}
      /\ Cardinality(Range(resolveOp.targets)) = Len(resolveOp.targets)
      /\ Len(resolveOp.errors) =
           Cardinality(unknownNames(names)) + Cardinality(unknownMembers(names))
      /\ \A i \in unknownNames(names) :
           \E e \in Range(resolveOp.errors) :
             e.kind = "unknownTarget" /\ e.name = names[i]
      /\ \A p \in unknownMembers(names) :
           \E e \in Range(resolveOp.errors) :
             /\ e.kind = "unknownService"
             /\ e.name = names[p[1]]
             /\ e.serviceId = groups.of[names[p[1]]].members[p[2]]

\* C25: target expansion is idempotent: resolving the target list a previous
\* resolution returned yields the same set of targets and no errors.
C25_Idempotent ==
  resolveOp.op = "again" =>
    /\ ~resolveOp.thrown
    /\ Range(resolveOp.targets) = Range(resolveOp.names)
    /\ resolveOp.errors = <<>>

\* C27: every SIGTERM or SIGKILL the supervisor sends targets the process
\* group of one of its own children whose exit has not yet been observed; the
\* SIGKILL of the 5 s timer is sent only if the child that was stopped has
\* still not exited.
C27_SignalsLiveChildren ==
  [][\A i \in DOMAIN signalled' :
       LET s == signalled'[i] IN
         /\ s.id \in IdSet
         /\ s.child \in 1..Len(children[s.id])
         /\ children[s.id][s.child].state # "exited"
    ]_vars

\* C28: in every reachable state, an instance whose status is stopped or
\* error holds no process handle.
C28_NoHandleWhenDown ==
  \A id \in IdSet :
    instances[id].status \in {"stopped", "error"} => instances[id].process = NoProc

\* a child has exited or failed to spawn, and the instance is stopped or in
\* error without a handle
C28_Witness ==
  /\ lastOp.op \in {"exit", "error"}
  /\ instances[lastOp.id].status \in {"stopped", "error"}
  /\ instances[lastOp.id].process = NoProc
  /\ children[lastOp.id][lastOp.child].state \in {"exited", "failed"}

\* C29: from each status-change to running until the next status-change to
\* stopped or error for that id, the instance holds a process handle and the
\* child it refers to is alive: a running instance holds the handle of a
\* child that has not exited, and a step that leaves the instance running
\* leaves it the same child.
C29_RunningIsAlive ==
  [][\A id \in IdSet :
       /\ instances'[id].status = "running" =>
            /\ instances'[id].process # NoProc
            /\ children'[id][instances'[id].process].state = "live"
       /\ (instances[id].status = "running" /\ EmittedFor(emitted', id) = {}) =>
            /\ instances'[id].status = "running"
            /\ instances'[id].process = instances[id].process
    ]_vars

\* an instance is running with its child alive, after an earlier child of it
\* has exited
C29_Witness ==
  \E id \in IdSet :
    /\ instances[id].status = "running"
    /\ instances[id].process = 2
    /\ children[id][2].state = "live"
    /\ children[id][1].state = "exited"
    /\ lastOp.op \in {"grace", "data"}

\* C30: for every waiting instance, waitingFor is a subset of its dependsOn,
\* and each id in waitingFor is either not running or its most recent
\* status-change to running has not yet been processed by the recovery
\* watcher: after a macrotask in which the registered watcher has processed
\* running for d, no waiting instance has the running d in its waitingFor.
C30_WaitingForPending ==
  [][\A w \in IdSet :
       instances'[w].status = "waiting" =>
         /\ Range(instances'[w].waitingFor) \subseteq Range(dependsOn(w))
         /\ \A d \in Range(instances'[w].waitingFor) :
              (d \in IdSet /\ instances'[d].status = "running") =>
                ~(dependencyWatcherSetup /\ "running" \in EmittedFor(emitted', d))
    ]_vars

C32_OutputOnlyWhenStarted ==
  [][\A id \in IdSet :
       (lastOp'.op = "data" /\ lastOp'.id = id) =>
         instances[id].status \notin {"stopped", "error"}]_vars

\* the newest line of a buffer is the given one
NewestIs(b, line) ==
  LET lines == BufToArray(b) IN lines # <<>> /\ lines[Len(lines)] = line

\* C33 as stated: a subscriber that reads the Log Store from inside an
\* output(id, line, stream) handler finds that line in the combined buffer
\* and in the stream's buffer of id, for every configured maxOutputLines.
C33_LineStoredAnyCapacity ==
  [][lastOp'.op = "data" =>
       /\ NewestIs(outputBuffers'[lastOp'.id].output, lastOp'.line)
       /\ NewestIs(outputBuffers'[lastOp'.id][lastOp'.stream], lastOp'.line)]_vars

\* C33 amended: with maxOutputLines of at least 1, the handler of
\* output(id, line, stream) finds the line as the newest one of the combined
\* buffer and of the stream's buffer of id.
C33_LineStored ==
  [][(lastOp'.op = "data" /\ outputBuffers[lastOp'.id].output.capacity >= 1) =>
       /\ NewestIs(outputBuffers'[lastOp'.id].output, lastOp'.line)
       /\ NewestIs(outputBuffers'[lastOp'.id][lastOp'.stream], lastOp'.line)]_vars

\* a line has been stored in full buffers, the oldest line dropped
C33_Witness ==
  /\ lastOp.op = "data"
  /\ calls.data = 3
  /\ outputBuffers[lastOp.id].output.capacity = 2
  /\ outputBuffers[lastOp.id].output.start = 1
  /\ NewestIs(outputBuffers[lastOp.id].output, lastOp.line)
  /\ NewestIs(outputBuffers[lastOp.id][lastOp.stream], lastOp.line)

\* C34: in every snapshot the state exporter writes, logs[id] equals the most
\* recent 100 lines of the combined buffer of id at the moment of the write;
\* snapshots are written on status-change events and never on output events.
C34_SnapshotLogs ==
  /\ \A i \in 1..Len(written) : \A id \in IdSet :
       written[i].logs[id] = written[i].store[id]
  /\ Len(written) <= Len(emitted)

\* every start() that emitted starting has spawned its child, and the exit
\* handling of the last macrotask has resolved the stop() promises of the child
OperationsCompleted ==
  /\ \A i \in 1..Len(emitted') :
       emitted'[i][2] = "starting" =>
         /\ emitted'[i][1] \in Range(spawned')
         /\ instances'[emitted'[i][1]].process # NoProc
  /\ lastOp'.op = "exit" => children'[lastOp'.id][lastOp'.child].stops = <<>>

\* C35: if writing the state file fails during a status change, the failure
\* is contained: the status transition and the start or exit handling that
\* caused it run to completion, the other subscribers receive the event and
\* the supervisor keeps running.
C35_WriteErrorContained ==
  [][(faults.write /\ lastOp' # lastOp /\ emitted' # <<>>) =>
       /\ ~escaped'.uncaught
       /\ escaped'.missed = <<>>
       /\ OperationsCompleted]_vars

\* C36: if a subscriber's handler throws while handling a status-change or
\* output event, every other subscriber receives that event and the operation
\* that emitted it (start, exit handling, output ingestion and readiness
\* check) runs to completion.
C36_HandlerErrorIsolated ==
  [][(faults.subscriber /\ lastOp' # lastOp /\ (emitted' # <<>> \/ lastOp'.op = "data")) =>
       /\ ~escaped'.uncaught
       /\ escaped'.missed = <<>>
       /\ OperationsCompleted
       /\ (/\ lastOp'.op = "data"
           /\ config.readyWhen[lastOp'.id]
           /\ instances[lastOp'.id].status = "starting"
           /\ PlainReady(outputBuffers'[lastOp'.id].output))
          => instances'[lastOp'.id].status = "running"]_vars

\* C37: once stopAll() has resolved, no runnable has a live child process
\* (and none is spawned afterwards without a new start): when cleanup() has
\* awaited manager.stopAll() and the supervisor has exited with code 0, and
\* nothing but the startAll() of main has called start or restart, no child
\* of any runnable is alive.
C37_StopAllLeavesNoChild ==
  (mainProc.pc = "exited" /\ mainProc.exitCode = 0 /\ calls.start = 0 /\ calls.stop = 0) =>
    \A id \in IdSet : \A p \in 1..Len(children[id]) : children[id][p].state # "live"

\* C38: at any time each runnable id has at most one live child process, and
\* while a child of that id is alive the instance's process handle refers to
\* it.
liveChildren(id) ==
  {p \in 1..Len(children[id]) : children[id][p].state = "live"}

C38_OneTrackedChild ==
  \A id \in IdSet :
    /\ Cardinality(liveChildren(id)) <= 1
    /\ \A p \in liveChildren(id) : instances[id].process = p

\* C39: after run() has replaced a command that is still running, the later
\* events of the replaced child (exit, error, output) leave the status, the
\* process handle and the output of the runner as they are
C39_StaleEventsIgnored ==
  [][\A k \in 1..Len(runners) :
       (/\ runnerOp'.op \in {"exit", "error", "data"}
        /\ runnerOp'.runner = k
        /\ runnerOp'.child < Len(runners[k].procs))
       => /\ runners'[k].status = runners[k].status
          /\ runners'[k].process = runners[k].process
          /\ runners'[k].output = runners[k].output
    ]_vars

\* the lines of a byte sequence: its maximal runs of bytes other than newline
logicalLines(bytes) == filterBoolean(split(bytes, <<>>))

\* C40: the lines stored and emitted for a stream depend only on the bytes
\* the child wrote, not on their split into chunks: once every byte has been
\* delivered, the lines passed to addOutput and the lines in the stdout and
\* combined buffers are the logical lines of the bytes
C40_ChunkingInvisible ==
  pipe.rest = <<>> =>
    /\ pipe.lines = logicalLines(pipe.bytes)
    /\ BufToArray(outputBuffers["a"].stdout) = logicalLines(pipe.bytes)
    /\ BufToArray(outputBuffers["a"].output) = logicalLines(pipe.bytes)

====
